---- MODULE Spec2Model ----
(***************************************************************************)
(* A model of two parts of the repository:                                 *)
(*                                                                         *)
(*   - the work queue of pilot/pkg/serviceregistry/kube/queue.go           *)
(*     (queueImpl.Push, queueImpl.Run, the stop goroutine and the delayed  *)
(*     retry timers), as a state machine of goroutines sharing a mutex    *)
(*     and a condition variable;                                           *)
(*   - the CDS cluster builder (BuildClusters and the functions it calls), *)
(*     as operators over records, applied by actions to inputs drawn from  *)
(*     bounded sets.                                                       *)
(*                                                                         *)
(* Each part has its own specification; the variables of the other part    *)
(* are pinned by that specification.                                       *)
(***************************************************************************)
EXTENDS Integers, Sequences, FiniteSets, TLC

VARIABLES
    \* ---- work queue (queue.go) ----
    queue,      \* q.queue: the sequence of pending tasks
    closing,    \* q.closing
    mu,         \* q.cond.L: who holds the mutex, and the item a Push carries
    runPc,      \* position of the goroutine executing Run
    cur,        \* Run's local variable item (0: none yet)
    stopCh,     \* TRUE once the stop channel passed to Run is signalled
    stopPc,     \* position of the goroutine Run spawns to watch stop
    timers,     \* tasks held by a pending time.AfterFunc(q.delay, ...)
    nextId,     \* the next task a client will pass to Push
    failed,     \* per task: how many handler invocations returned an error
    succeeded,  \* tasks one of whose handler invocations returned nil
    running,    \* tasks whose handler is executing now
    appended,   \* history: the tasks appended to q.queue, in order
    invoked,    \* history: the tasks whose handler was invoked, in order
    dropped,    \* history: the tasks a Push discarded because of closing
    \* ---- normalizeClusters on its own ----
    nIn,        \* the emitted cluster list handed to normalizeClusters
    nOut,       \* its result
    nEvents,    \* the DuplicatedClusters events recorded on the push context
    nPc,        \* "ready" before the call, "done" after it
    \* ---- BuildClusters ----
    \* the arguments of BuildClusters (arg, as operators name their parameters
    \* as the code does)
    argConfiggen,  \* the ConfigGeneratorImpl: its plugins
    argEnv,        \* model.Environment: mesh config, feature flags, registry
    argProxy,      \* model.Proxy the clusters are built for
    argPush,       \* model.PushContext: services, destination rules, accounts
    outs,       \* what the calls of BuildClusters made so far returned
    \* ---- the traffic-policy functions on their own ----
    tpRoot,     \* a destination rule's root traffic policy (Nil: none)
    tpSubset,   \* the traffic policy of one of its subsets (Nil: none)
    tpPort,     \* the service port a cluster is built for (Nil: none)
    tpSelected, \* what SelectTrafficPolicyComponents(tpRoot, tpPort) returned
    tpLayered,  \* a subset cluster before and after the two policies
    \* ---- ChainHandler as the handler of the queued tasks ----
    chFuncs,    \* ch.Funcs: the chain's handlers, in order
    chTrace,    \* the running Apply: the handler calls that returned nil
    chHist      \* per task: the finished calls of Apply, each with its
                \* handler calls in order and the value it returned

qvars == <<queue, closing, mu, runPc, cur, stopCh, stopPc, timers, nextId,
           failed, succeeded, running, appended, invoked, dropped>>
nvars == <<nIn, nOut, nEvents, nPc>>
\* everything that is not the work queue's
cvars == <<argConfiggen, argEnv, argProxy, argPush, outs>>
pvars == <<tpRoot, tpSubset, tpPort, tpSelected, tpLayered>>
hvars == <<chFuncs, chTrace, chHist>>
bvars == <<nvars, cvars, pvars, hvars>>
vars == <<qvars, bvars>>

\* A nil pointer: an optional part that is absent.
Nil == [nil |-> TRUE]

(***************************************************************************)
(* Bounds of the model.                                                    *)
(***************************************************************************)
\* client calls of Push
MaxTasks == 2
\* failing handler invocations per task
MaxFail == 1

Tasks == 1..MaxTasks

Range(s) == {s[i] : i \in 1..Len(s)}

Count(s, x) == Cardinality({i \in 1..Len(s) : s[i] = x})

(***************************************************************************)
(* The work queue.                                                         *)
(***************************************************************************)
Free == [who |-> "none", item |-> 0]

\* sync.Cond.Signal: wakes one goroutine waiting on the condition variable,
\* here the only one that ever waits, Run; without a waiter it does nothing.
Signal(pc) == IF pc = "waiting" THEN "woken" ELSE pc

NewQueue ==
    /\ queue = <<>>
    /\ closing = FALSE
    /\ mu = Free
    /\ runPc = "start"
    /\ cur = 0
    /\ stopCh = FALSE
    /\ stopPc = "none"
    /\ timers = {}
    /\ nextId = 1
    /\ failed = [t \in Tasks |-> 0]
    /\ succeeded = {}
    /\ running = {}
    /\ appended = <<>>
    /\ invoked = <<>>
    /\ dropped = <<>>

\* A client calls Push(item) and gets the mutex (q.cond.L.Lock()).
Push_Lock ==
    /\ nextId <= MaxTasks
    /\ mu = Free
    /\ mu' = [who |-> "push", item |-> nextId]
    /\ nextId' = nextId + 1
    /\ UNCHANGED <<queue, closing, runPc, cur, stopCh, stopPc, timers, failed,
                   succeeded, running, appended, invoked, dropped>>
    /\ UNCHANGED bvars

\* The function of a time.AfterFunc fires: q.Push(item) gets the mutex.
Push_Retry(t) ==
    /\ t \in timers
    /\ mu = Free
    /\ mu' = [who |-> "push", item |-> t]
    /\ timers' = timers \ {t}
    /\ UNCHANGED <<queue, closing, runPc, cur, stopCh, stopPc, nextId, failed,
                   succeeded, running, appended, invoked, dropped>>
    /\ UNCHANGED bvars

\* Mutant of Push_Body: the closing flag is not consulted.
Push_Body_IgnoreClosing ==
    /\ mu.who = "push"
    /\ queue' = Append(queue, mu.item)
    /\ appended' = Append(appended, mu.item)
    /\ runPc' = Signal(runPc)
    /\ mu' = Free
    /\ UNCHANGED <<closing, cur, stopCh, stopPc, timers, nextId, failed,
                   succeeded, running, invoked, dropped>>
    /\ UNCHANGED bvars

\* The body of Push under the mutex: append unless closing, Signal, Unlock.
Push_Body ==
    /\ mu.who = "push"
    /\ IF ~closing
         THEN /\ queue' = Append(queue, mu.item)
              /\ appended' = Append(appended, mu.item)
              /\ dropped' = dropped
         ELSE /\ dropped' = Append(dropped, mu.item)
              /\ UNCHANGED <<queue, appended>>
    /\ runPc' = Signal(runPc)
    /\ mu' = Free
    /\ UNCHANGED <<closing, cur, stopCh, stopPc, timers, nextId, failed,
                   succeeded, running, invoked>>
    /\ UNCHANGED bvars

\* The stop channel passed to Run is signalled (closed) by its owner.
CloseStop ==
    /\ ~stopCh
    /\ stopCh' = TRUE
    /\ UNCHANGED <<queue, closing, mu, runPc, cur, stopPc, timers, nextId,
                   failed, succeeded, running, appended, invoked, dropped>>
    /\ UNCHANGED bvars

\* Run starts: it spawns the goroutine that waits on stop, then loops.
Run_Start ==
    /\ runPc = "start"
    /\ runPc' = "lock"
    /\ stopPc' = "recv"
    /\ UNCHANGED <<queue, closing, mu, cur, stopCh, timers, nextId, failed,
                   succeeded, running, appended, invoked, dropped>>
    /\ UNCHANGED bvars

\* The stop goroutine: <-stop returns.
Stop_Recv ==
    /\ stopPc = "recv"
    /\ stopCh
    /\ stopPc' = "lock"
    /\ UNCHANGED <<queue, closing, mu, runPc, cur, stopCh, timers, nextId,
                   failed, succeeded, running, appended, invoked, dropped>>
    /\ UNCHANGED bvars

\* The stop goroutine: q.cond.L.Lock().
Stop_Lock ==
    /\ stopPc = "lock"
    /\ mu = Free
    /\ mu' = [who |-> "stop", item |-> 0]
    /\ stopPc' = "set"
    /\ UNCHANGED <<queue, closing, runPc, cur, stopCh, timers, nextId, failed,
                   succeeded, running, appended, invoked, dropped>>
    /\ UNCHANGED bvars

\* The stop goroutine: q.closing = true; q.cond.L.Unlock().  No Signal.
Stop_Set ==
    /\ stopPc = "set"
    /\ closing' = TRUE
    /\ mu' = Free
    /\ stopPc' = "done"
    /\ UNCHANGED <<queue, runPc, cur, stopCh, timers, nextId, failed,
                   succeeded, running, appended, invoked, dropped>>
    /\ UNCHANGED bvars

\* Run: q.cond.L.Lock() at the top of the loop, or on waking up in Wait.
Run_Lock ==
    /\ runPc \in {"lock", "woken"}
    /\ mu = Free
    /\ mu' = [who |-> "run", item |-> 0]
    /\ runPc' = "check"
    /\ UNCHANGED <<queue, closing, cur, stopCh, stopPc, timers, nextId, failed,
                   succeeded, running, appended, invoked, dropped>>
    /\ UNCHANGED bvars

\* Run: the inner loop's condition holds, q.cond.Wait() releases the mutex.
Run_Wait ==
    /\ runPc = "check"
    /\ ~closing /\ Len(queue) = 0
    /\ mu' = Free
    /\ runPc' = "waiting"
    /\ UNCHANGED <<queue, closing, cur, stopCh, stopPc, timers, nextId, failed,
                   succeeded, running, appended, invoked, dropped>>
    /\ UNCHANGED bvars

\* Mutant of Run_Return: Run returns as soon as closing is set.
Run_Return_OnClosing ==
    /\ runPc = "check"
    /\ closing
    /\ mu' = Free
    /\ runPc' = "done"
    /\ UNCHANGED <<queue, closing, cur, stopCh, stopPc, timers, nextId, failed,
                   succeeded, running, appended, invoked, dropped>>
    /\ UNCHANGED bvars

\* Run: the queue is empty after the inner loop: Unlock and return.
Run_Return ==
    /\ runPc = "check"
    /\ ~(~closing /\ Len(queue) = 0)
    /\ Len(queue) = 0
    /\ mu' = Free
    /\ runPc' = "done"
    /\ UNCHANGED <<queue, closing, cur, stopCh, stopPc, timers, nextId, failed,
                   succeeded, running, appended, invoked, dropped>>
    /\ UNCHANGED bvars

\* Mutant of Run_Dequeue: the newest task is taken instead of the oldest.
Run_Dequeue_Lifo ==
    /\ runPc = "check"
    /\ ~(~closing /\ Len(queue) = 0)
    /\ Len(queue) # 0
    /\ cur' = queue[Len(queue)]
    /\ queue' = SubSeq(queue, 1, Len(queue) - 1)
    /\ mu' = Free
    /\ runPc' = "invoke"
    /\ UNCHANGED <<closing, stopCh, stopPc, timers, nextId, failed, succeeded,
                   running, appended, invoked, dropped>>
    /\ UNCHANGED bvars

\* Run: item, q.queue = q.queue[0], q.queue[1:]; Unlock.
Run_Dequeue ==
    /\ runPc = "check"
    /\ ~(~closing /\ Len(queue) = 0)
    /\ Len(queue) # 0
    /\ cur' = Head(queue)
    /\ queue' = Tail(queue)
    /\ mu' = Free
    /\ runPc' = "invoke"
    /\ UNCHANGED <<closing, stopCh, stopPc, timers, nextId, failed, succeeded,
                   running, appended, invoked, dropped>>
    /\ UNCHANGED bvars

\* Mutant of Run_Invoke: the handler is started in a goroutine of its own.
Run_Invoke_Async ==
    /\ runPc = "invoke"
    /\ running' = running \cup {cur}
    /\ invoked' = Append(invoked, cur)
    /\ runPc' = "lock"
    /\ UNCHANGED <<queue, closing, mu, cur, stopCh, stopPc, timers, nextId,
                   failed, succeeded, appended, dropped>>
    /\ UNCHANGED bvars

\* Run: item.Handler(item.Obj, item.Event) is called, in Run's own goroutine.
Run_Invoke ==
    /\ runPc = "invoke"
    /\ running' = running \cup {cur}
    /\ invoked' = Append(invoked, cur)
    /\ runPc' = "handle"
    /\ UNCHANGED <<queue, closing, mu, cur, stopCh, stopPc, timers, nextId,
                   failed, succeeded, appended, dropped>>
    /\ UNCHANGED bvars

\* The handler of task t returns nil: the loop goes on.
Handler_Ok(t) ==
    /\ t \in running
    /\ running' = running \ {t}
    /\ succeeded' = succeeded \cup {t}
    /\ runPc' = IF runPc = "handle" /\ cur = t THEN "lock" ELSE runPc
    /\ UNCHANGED <<queue, closing, mu, cur, stopCh, stopPc, timers, nextId,
                   failed, appended, invoked, dropped>>
    /\ UNCHANGED bvars

\* Mutant of Handler_Err: the error is logged and no retry is scheduled.
Handler_Err_NoRetry(t) ==
    /\ t \in running
    /\ failed[t] < MaxFail
    /\ running' = running \ {t}
    /\ failed' = [failed EXCEPT ![t] = @ + 1]
    /\ runPc' = IF runPc = "handle" /\ cur = t THEN "lock" ELSE runPc
    /\ UNCHANGED <<queue, closing, mu, cur, stopCh, stopPc, timers, nextId,
                   succeeded, appended, invoked, dropped>>
    /\ UNCHANGED bvars

\* The handler of task t returns an error: time.AfterFunc(q.delay, q.Push(item)).
Handler_Err(t) ==
    /\ t \in running
    /\ failed[t] < MaxFail
    /\ running' = running \ {t}
    /\ failed' = [failed EXCEPT ![t] = @ + 1]
    /\ timers' = timers \cup {t}
    /\ runPc' = IF runPc = "handle" /\ cur = t THEN "lock" ELSE runPc
    /\ UNCHANGED <<queue, closing, mu, cur, stopCh, stopPc, nextId, succeeded,
                   appended, invoked, dropped>>
    /\ UNCHANGED bvars

NormIdle ==
    /\ nIn = <<>>
    /\ nOut = <<>>
    /\ nEvents = <<>>
    /\ nPc = "off"

\* BuildClusters is not called.
BuildIdle ==
    /\ argConfiggen = Nil
    /\ argEnv = Nil
    /\ argProxy = Nil
    /\ argPush = Nil
    /\ outs = <<>>

\* No traffic policy is being applied.
PolicyIdle ==
    /\ tpRoot = Nil
    /\ tpSubset = Nil
    /\ tpPort = Nil
    /\ tpSelected = Nil
    /\ tpLayered = Nil

\* No ChainHandler is in use: the tasks' handlers are opaque functions.
ChainIdle ==
    /\ chFuncs = <<>>
    /\ chTrace = <<>>
    /\ chHist = <<>>

QueueInit == NewQueue /\ NormIdle /\ BuildIdle /\ PolicyIdle /\ ChainIdle

QueueNext ==
    \/ Push_Lock
    \/ \E t \in Tasks : Push_Retry(t)
    \/ Push_Body
    \/ CloseStop
    \/ Run_Start
    \/ Stop_Recv
    \/ Stop_Lock
    \/ Stop_Set
    \/ Run_Lock
    \/ Run_Wait
    \/ Run_Return
    \/ Run_Dequeue
    \/ Run_Invoke
    \/ \E t \in Tasks : Handler_Ok(t)
    \/ \E t \in Tasks : Handler_Err(t)

QueueSpec == QueueInit /\ [][QueueNext]_vars

(***************************************************************************)
(* The cluster builder.  Values are records; a loop of the code is a       *)
(* recursive operator over the index of the slice it ranges over, carrying *)
(* the variables the loop body assigns.                                    *)
(***************************************************************************)

\* A local variable of the code: value is computed once, and Rest is the
\* code that follows the assignment.
With(value, Rest(_)) == Rest(value)

\* ---- names (model.BuildSubsetKey, model.BuildDNSSrvSubsetKey, util.*) ----
\* A string that is not one of the two key forms.
Literal(text) == [form |-> "literal", text |-> text]

\* <direction>|<port>|<subsetName>|<hostname>
BuildSubsetKey(direction, subsetName, hostname, port) ==
    [form |-> "subsetKey", direction |-> direction, subset |-> subsetName,
     hostname |-> hostname, port |-> port]

\* <direction>_.<port>_.<subsetName>_.<hostname>
BuildDNSSrvSubsetKey(direction, subsetName, hostname, port) ==
    [form |-> "dnsSrvSubsetKey", direction |-> direction, subset |-> subsetName,
     hostname |-> hostname, port |-> port]

BlackHoleCluster == Literal("BlackHoleCluster")
PassthroughCluster == Literal("PassthroughCluster")
InboundPassthroughClusterIpv4 == Literal("InboundPassthroughClusterIpv4")
InboundPassthroughClusterIpv6 == Literal("InboundPassthroughClusterIpv6")

\* model.GetOrDefault: s unless it is empty
GetOrDefault(str, def) == IF str # "" THEN str ELSE def

\* protocol.Instance.IsHTTP2
IsHTTP2(protocol) == protocol \in {"HTTP2", "GRPC"}

\* ---- the cluster record (apiv2.Cluster) ----
\* &apiv2.Cluster{Name: name, ClusterDiscoveryType: type}: all else zero.
\* srcPort is not a field of the proto: it records the port (model.Port)
\* the cluster was built for, Nil for the sinks.
NewCluster(name, discoveryType, lbPolicy) ==
    [name |-> name,
     type |-> discoveryType,
     lbPolicy |-> lbPolicy,
     loadAssignment |-> Nil,
     edsClusterConfig |-> Nil,
     tlsContext |-> Nil,
     transportSocketMatches |-> <<>>,
     outlierDetection |-> Nil,
     circuitBreakers |-> Nil,
     commonLbConfig |-> Nil,
     lbConfig |-> Nil,
     connectTimeout |-> Nil,
     maxRequestsPerConnection |-> 0,
     commonHttpProtocolOptions |-> Nil,
     upstreamConnectionOptions |-> Nil,
     http2ProtocolOptions |-> Nil,
     protocolSelection |-> "USE_CONFIGURED_PROTOCOL",
     dnsLookupFamily |-> "AUTO",
     respectDnsTtl |-> FALSE,
     upstreamBindConfig |-> Nil,
     altStatName |-> <<>>,
     metadata |-> Nil,
     srcPort |-> Nil]

lbPolicyClusterProvided(proxy) ==
    IF proxy.istioVersionGE13 THEN "CLUSTER_PROVIDED" ELSE "ORIGINAL_DST_LB"

\* ---- traffic-policy resolver ----
NoComponents == [connectionPool |-> Nil, outlierDetection |-> Nil,
                 loadBalancer |-> Nil, tls |-> Nil]

\* Mutant of SelectTrafficPolicyComponents: port-level settings are ignored.
SelectTrafficPolicyComponents_RootOnly(policy, port) ==
    IF policy = Nil THEN NoComponents
    ELSE [connectionPool |-> policy.connectionPool,
          outlierDetection |-> policy.outlierDetection,
          loadBalancer |-> policy.loadBalancer,
          tls |-> policy.tls]

SelectTrafficPolicyComponents(policy, port) ==
    IF policy = Nil THEN NoComponents
    ELSE LET pls == policy.portLevelSettings
             match == {i \in 1..Len(pls) :
                          pls[i].port # Nil /\ port # Nil /\ port.port = pls[i].port.number}
         IN IF port # Nil /\ Len(pls) > 0 /\ match # {}
              THEN LET p == pls[CHOOSE i \in match : \A j \in match : i <= j]
                   IN [connectionPool |-> p.connectionPool,
                       outlierDetection |-> p.outlierDetection,
                       loadBalancer |-> p.loadBalancer,
                       tls |-> p.tls]
              ELSE [connectionPool |-> policy.connectionPool,
                    outlierDetection |-> policy.outlierDetection,
                    loadBalancer |-> policy.loadBalancer,
                    tls |-> policy.tls]

\* ---- connection tuning ----
\* MaxRetries of defaultOutboundCircuitBreakerThresholds
DefaultMaxRetries == 1024

\* A wrapper that is nil is 0 in the thresholds of the model.
getDefaultCircuitBreakerThresholds(direction) ==
    IF direction = "inbound"
      THEN [maxConnections |-> 0, maxPendingRequests |-> 0, maxRequests |-> 0,
            maxRetries |-> 0]
      ELSE [maxConnections |-> 0, maxPendingRequests |-> 0, maxRequests |-> 0,
            maxRetries |-> DefaultMaxRetries]

applyTCPKeepalive(env, cluster, settings) ==
    LET meshKa == env.mesh.tcpKeepalive
        ruleKa == settings.tcp.tcpKeepalive
        ka == IF ruleKa # Nil THEN ruleKa ELSE meshKa
    IN IF ka = Nil THEN cluster
       ELSE [cluster EXCEPT !.upstreamConnectionOptions =
                [keepaliveProbes |-> ka.probes,
                 keepaliveTime |-> ka.time,
                 keepaliveInterval |-> ka.interval]]

applyConnectionPool(env, cluster, settings, direction) ==
    IF settings = Nil THEN cluster
    ELSE LET http == settings.http
             tcp == settings.tcp
             threshold ==
                 [getDefaultCircuitBreakerThresholds(direction) EXCEPT
                     !.maxRequests =
                         IF http # Nil /\ http.http2MaxRequests > 0
                           THEN http.http2MaxRequests ELSE @,
                     !.maxPendingRequests =
                         IF http # Nil /\ http.http1MaxPendingRequests > 0
                           THEN http.http1MaxPendingRequests ELSE @,
                     !.maxRetries =
                         IF http # Nil /\ http.maxRetries > 0
                           THEN http.maxRetries ELSE @,
                     !.maxConnections =
                         IF tcp # Nil /\ tcp.maxConnections > 0
                           THEN tcp.maxConnections ELSE @]
             c2 == [cluster EXCEPT
                     !.maxRequestsPerConnection =
                         IF http # Nil /\ http.maxRequestsPerConnection > 0
                           THEN http.maxRequestsPerConnection ELSE @,
                     !.connectTimeout =
                         IF tcp # Nil /\ tcp.connectTimeout # Nil
                           THEN tcp.connectTimeout ELSE @]
             c3 == With(c2, LAMBDA c : IF tcp # Nil
                                         THEN applyTCPKeepalive(env, c, settings)
                                         ELSE c)
         IN [c3 EXCEPT
               !.circuitBreakers = [thresholds |-> <<threshold>>],
               !.commonHttpProtocolOptions =
                   IF http # Nil /\ http.idleTimeout # Nil
                     THEN [idleTimeout |-> http.idleTimeout] ELSE @]

\* cluster.CommonLbConfig with nothing set
EmptyCommonLbConfig == [healthyPanicThreshold |-> Nil, localityWeightedLbConfig |-> FALSE]

applyOutlierDetection(cluster, outlier) ==
    IF outlier = Nil THEN cluster
    ELSE LET out == [baseEjectionTime |-> outlier.baseEjectionTime,
                     consecutiveGatewayFailure |-> outlier.consecutiveErrors,
                     enforcingConsecutiveGatewayFailure |->
                         IF outlier.consecutiveErrors > 0 THEN 100 ELSE 0,
                     enforcingConsecutive5xx |->
                         IF outlier.consecutiveErrors > 0 THEN [value |-> 0] ELSE Nil,
                     interval |-> outlier.interval,
                     maxEjectionPercent |-> outlier.maxEjectionPercent]
             common == IF cluster.commonLbConfig = Nil THEN EmptyCommonLbConfig
                       ELSE cluster.commonLbConfig
         IN [cluster EXCEPT
               !.outlierDetection = out,
               !.commonLbConfig =
                   IF outlier.minHealthPercent >= 0
                     THEN [common EXCEPT !.healthyPanicThreshold =
                              [value |-> outlier.minHealthPercent]]
                     ELSE @]

\* lb.GetSimple(): the zero value when the oneof holds a consistent hash
GetSimple(lb) == IF lb.kind = "simple" THEN lb.simple ELSE "ROUND_ROBIN"

\* minimum ring size of a ring-hash cluster when the rule gives none
DefaultMinimumRingSize == 1024

\* Mutant of applyLoadBalancer: the check of the discovery type is left
\* out, so that a load balancer setting is mapped on an ORIGINAL_DST
\* cluster as on any other.
applyLoadBalancer_NoOriginalDstCheck(env, cluster, lb, port, proxy) ==
    IF lb = Nil THEN cluster
    ELSE IF env.features.enableRedisFilter /\ port # Nil /\ port.protocol = "Redis"
      THEN [cluster EXCEPT !.lbPolicy = "MAGLEV"]
    ELSE IF lb.kind = "consistentHash"
      THEN [cluster EXCEPT !.lbPolicy = "RING_HASH"]
    ELSE IF lb.simple = "PASSTHROUGH"
      THEN [cluster EXCEPT !.lbPolicy = lbPolicyClusterProvided(proxy),
                           !.type = "ORIGINAL_DST"]
    ELSE [cluster EXCEPT !.lbPolicy =
             IF lb.simple = "LEAST_CONN" THEN "LEAST_REQUEST" ELSE lb.simple]

applyLoadBalancer(env, cluster, lb, port, proxy) ==
    LET common == IF cluster.commonLbConfig = Nil THEN EmptyCommonLbConfig
                  ELSE cluster.commonLbConfig
    IN With([cluster EXCEPT !.commonLbConfig =
                IF cluster.outlierDetection # Nil
                  THEN [common EXCEPT !.localityWeightedLbConfig = TRUE]
                  ELSE @],
       LAMBDA c1 :
       IF lb = Nil THEN c1
       ELSE IF c1.type = "ORIGINAL_DST"
         THEN [c1 EXCEPT !.lbPolicy = lbPolicyClusterProvided(proxy)]
       ELSE IF env.features.enableRedisFilter /\ port # Nil /\ port.protocol = "Redis"
         THEN [c1 EXCEPT !.lbPolicy = "MAGLEV"]
       ELSE LET simple == GetSimple(lb)
                c2 == CASE simple = "LEAST_CONN" -> [c1 EXCEPT !.lbPolicy = "LEAST_REQUEST"]
                        [] simple = "RANDOM" -> [c1 EXCEPT !.lbPolicy = "RANDOM"]
                        [] simple = "ROUND_ROBIN" -> [c1 EXCEPT !.lbPolicy = "ROUND_ROBIN"]
                        [] simple = "PASSTHROUGH" ->
                              [c1 EXCEPT !.lbPolicy = lbPolicyClusterProvided(proxy),
                                         !.type = "ORIGINAL_DST"]
                        [] OTHER -> c1
            IN [c2 EXCEPT
                  !.lbPolicy = IF lb.kind = "consistentHash" THEN "RING_HASH" ELSE @,
                  !.lbConfig = IF lb.kind = "consistentHash"
                                 THEN [minimumRingSize |->
                                          IF lb.minimumRingSize # 0
                                            THEN lb.minimumRingSize
                                            ELSE DefaultMinimumRingSize]
                                 ELSE @])

\* ---- TLS materializer ----
\* constants.DefaultRootCert, DefaultCertChain, DefaultKey
DefaultRootCert == "/etc/certs/root-cert.pem"
DefaultCertChain == "/etc/certs/cert-chain.pem"
DefaultKey == "/etc/certs/key.pem"

EmptySni == Literal("")

buildIstioMutualTLS(serviceAccounts, sni, proxy) ==
    [mode |-> "ISTIO_MUTUAL",
     caCertificates |-> GetOrDefault(proxy.metadata.tlsClientRootCert, DefaultRootCert),
     clientCertificate |-> GetOrDefault(proxy.metadata.tlsClientCertChain, DefaultCertChain),
     privateKey |-> GetOrDefault(proxy.metadata.tlsClientKey, DefaultKey),
     subjectAltNames |-> serviceAccounts,
     sni |-> sni]

\* The TLS settings to apply and where they come from.
conditionallyConvertToIstioMtls(tls, serviceAccounts, sni, proxy, autoMTLSEnabled, meshExternal) ==
    IF tls = Nil /\ (meshExternal \/ ~autoMTLSEnabled)
      THEN [tls |-> Nil, mtlsCtx |-> "userSupplied"]
      ELSE LET mtlsCtx == IF tls = Nil THEN "autoDetected" ELSE "userSupplied"
               t == IF tls = Nil
                      THEN [mode |-> "ISTIO_MUTUAL", caCertificates |-> "",
                            clientCertificate |-> "", privateKey |-> "",
                            subjectAltNames |-> <<>>, sni |-> EmptySni]
                      ELSE tls
           IN IF t.mode = "ISTIO_MUTUAL"
                THEN [tls |-> buildIstioMutualTLS(
                                 IF Len(t.subjectAltNames) = 0 THEN serviceAccounts
                                 ELSE t.subjectAltNames,
                                 IF t.sni = EmptySni THEN sni ELSE t.sni,
                                 proxy),
                      mtlsCtx |-> mtlsCtx]
                ELSE [tls |-> t, mtlsCtx |-> mtlsCtx]

\* Mutant of plaintextTransportSocketMatch: the catch-all entry is a TLS
\* socket.
plaintextTransportSocketMatch_Tls ==
    [name |-> "plaintext", match |-> {}, transportSocket |->
        [name |-> "envoy.transport_sockets.tls", typedConfig |-> Nil]]

\* plaintextTransportSocketMatch
plaintextTransportSocketMatch ==
    [name |-> "plaintext", match |-> {}, transportSocket |->
        [name |-> "envoy.transport_sockets.raw_buffer", typedConfig |-> Nil]]

\* label of an endpoint that is ready for mutual TLS (model.MTLSReadyLabelShortname)
MTLSReadyLabelShortname == "tlsMode"

applyUpstreamTLSSettings(env, cluster, tls, mtlsCtxType, proxy) ==
    IF tls = Nil THEN cluster
    ELSE
    LET trustedCa == IF tls.caCertificates # ""
                       THEN GetOrDefault(proxy.metadata.tlsClientRootCert, tls.caCertificates)
                       ELSE ""
        certValidationContext ==
            IF trustedCa # "" \/ Len(tls.subjectAltNames) > 0
              THEN [trustedCa |-> trustedCa, verifySubjectAltName |-> tls.subjectAltNames]
              ELSE [trustedCa |-> "", verifySubjectAltName |-> <<>>]
        simple ==
            [sni |-> tls.sni,
             alpnProtocols |-> IF cluster.http2ProtocolOptions # Nil THEN "ALPNH2Only" ELSE "",
             validationContextType |-> "ValidationContext",
             validationContext |-> certValidationContext,
             tlsCertificates |-> <<>>,
             tlsCertificateSdsSecretConfigs |-> <<>>]
        fileMount == env.mesh.sdsUdsPath = "" \/ tls.mode = "MUTUAL"
        mutual ==
            [sni |-> IF tls.sni = EmptySni /\ tls.mode = "ISTIO_MUTUAL"
                       THEN cluster.name ELSE tls.sni,
             alpnProtocols |->
                 IF cluster.http2ProtocolOptions # Nil
                   THEN (IF tls.mode = "ISTIO_MUTUAL" THEN "ALPNInMeshH2" ELSE "ALPNH2Only")
                   ELSE (IF tls.mode = "ISTIO_MUTUAL" THEN "ALPNInMesh" ELSE ""),
             validationContextType |->
                 IF fileMount THEN "ValidationContext" ELSE "CombinedValidationContext",
             validationContext |->
                 IF fileMount THEN certValidationContext
                 ELSE [trustedCa |-> "sds:ROOTCA",
                       verifySubjectAltName |-> tls.subjectAltNames],
             tlsCertificates |->
                 IF fileMount
                   THEN <<[certificateChain |->
                              GetOrDefault(proxy.metadata.tlsClientCertChain,
                                           tls.clientCertificate),
                           privateKey |->
                              GetOrDefault(proxy.metadata.tlsClientKey, tls.privateKey)]>>
                   ELSE <<>>,
             tlsCertificateSdsSecretConfigs |->
                 IF fileMount THEN <<>> ELSE <<"sds:default">>]
        noKey == tls.clientCertificate = "" \/ tls.privateKey = ""
        tlsContext == CASE tls.mode = "DISABLE" -> Nil
                        [] tls.mode = "SIMPLE" -> simple
                        [] tls.mode \in {"MUTUAL", "ISTIO_MUTUAL"} /\ ~noKey -> mutual
                        [] OTHER -> cluster.tlsContext
    IN IF tls.mode \in {"MUTUAL", "ISTIO_MUTUAL"} /\ noKey
         THEN cluster
         ELSE With(tlsContext, LAMBDA ctx :
           IF tls.mode = "ISTIO_MUTUAL" /\ mtlsCtxType = "autoDetected"
             THEN [cluster EXCEPT
                     !.tlsContext = Nil,
                     !.transportSocketMatches =
                         <<[name |-> "mtls",
                            match |-> {<<MTLSReadyLabelShortname, "true">>},
                            transportSocket |->
                                [name |-> "envoy.transport_sockets.tls",
                                 typedConfig |-> ctx]],
                           plaintextTransportSocketMatch>>]
             ELSE [cluster EXCEPT !.tlsContext = ctx])

\* ---- one traffic policy applied to one cluster (buildClusterOpts) ----
applyTrafficPolicy(opts) ==
    With(SelectTrafficPolicyComponents(opts.policy, opts.port), LAMBDA sel :
    LET c1 == applyConnectionPool(opts.env, opts.cluster, sel.connectionPool, opts.direction)
        c2 == applyOutlierDetection(c1, sel.outlierDetection)
        c3 == applyLoadBalancer(opts.env, c2, sel.loadBalancer, opts.port, opts.proxy)
    IN With(c3, LAMBDA c :
       IF opts.clusterMode # "sni-dnat"
         THEN With(conditionallyConvertToIstioMtls(sel.tls, opts.serviceAccounts,
                       opts.sni, opts.proxy, opts.env.mesh.enableAutoMtls,
                       opts.meshExternal),
                   LAMBDA conv :
                       applyUpstreamTLSSettings(opts.env, c, conv.tls, conv.mtlsCtx,
                                                opts.proxy))
         ELSE c))

\* Envoy's default of 100 concurrent streams is replaced by this value
MaxConcurrentStreams == 1073741824

\* util.IsProtocolSniffingEnabledForInboundPort / ForOutboundPort
IsProtocolSniffingEnabled(env, node, port, direction) ==
    /\ IF direction = "inbound" THEN env.features.sniffInbound
       ELSE env.features.sniffOutbound
    /\ node.istioVersionGE13
    /\ port.protocol = "Unsupported"

setUpstreamProtocol(env, node, cluster, port, direction) ==
    [cluster EXCEPT
       !.http2ProtocolOptions =
           IF IsHTTP2(port.protocol)
              \/ IsProtocolSniffingEnabled(env, node, port, direction)
             THEN [maxConcurrentStreams |-> MaxConcurrentStreams] ELSE @,
       !.protocolSelection =
           IF IsProtocolSniffingEnabled(env, node, port, direction)
             THEN "USE_DOWNSTREAM_PROTOCOL" ELSE @]

\* ---- sink builders and the cluster factory ----
\* Mutant of buildBlackHoleCluster: the blackhole carries a load assignment
\* with no endpoints.
buildBlackHoleCluster_WithAssignment(env) ==
    [NewCluster(BlackHoleCluster, "STATIC", "ROUND_ROBIN")
        EXCEPT !.connectTimeout = env.mesh.connectTimeout,
               !.loadAssignment = [clusterName |-> BlackHoleCluster,
                                   endpoints |-> <<>>, localityLb |-> Nil]]

buildBlackHoleCluster(env) ==
    [NewCluster(BlackHoleCluster, "STATIC", "ROUND_ROBIN")
        EXCEPT !.connectTimeout = env.mesh.connectTimeout]

\* MaxConnections of the passthrough cluster: 1024 * 100
PassthroughMaxConnections == 102400

buildDefaultPassthroughCluster(env, proxy) ==
    applyConnectionPool(env,
        [NewCluster(PassthroughCluster, "ORIGINAL_DST", lbPolicyClusterProvided(proxy))
            EXCEPT !.connectTimeout = env.mesh.connectTimeout],
        [http |-> Nil,
         tcp |-> [connectTimeout |-> Nil, maxConnections |-> PassthroughMaxConnections,
                  tcpKeepalive |-> Nil]],
        "outbound")

buildDefaultTrafficPolicy(env, discoveryType) ==
    [loadBalancer |-> [kind |-> "simple",
                       simple |-> IF discoveryType = "ORIGINAL_DST" THEN "PASSTHROUGH"
                                  ELSE "ROUND_ROBIN"],
     connectionPool |-> [http |-> Nil,
                         tcp |-> [connectTimeout |-> env.mesh.connectTimeout,
                                  maxConnections |-> 0, tcpKeepalive |-> Nil]],
     outlierDetection |-> Nil,
     tls |-> Nil,
     portLevelSettings |-> <<>>]

buildDefaultCluster(env, name, discoveryType, localityLbEndpoints, direction, proxy, port, meshExternal) ==
    LET c2 == [NewCluster(name, discoveryType, "ROUND_ROBIN") EXCEPT
                 !.dnsLookupFamily =
                     IF discoveryType = "STRICT_DNS" THEN "V4_ONLY" ELSE @,
                 !.respectDnsTtl =
                     IF discoveryType = "STRICT_DNS"
                       THEN proxy.istioVersionGE13 /\ env.features.respectDnsTtl
                       ELSE @,
                 !.loadAssignment =
                     IF discoveryType \in {"STATIC", "STRICT_DNS"}
                       THEN [clusterName |-> name, endpoints |-> localityLbEndpoints,
                             localityLb |-> Nil]
                       ELSE @]
    IN applyTrafficPolicy(
          [env |-> env, cluster |-> c2,
           policy |-> buildDefaultTrafficPolicy(env, discoveryType),
           port |-> port, serviceAccounts |-> <<>>, sni |-> EmptySni,
           clusterMode |-> "outbound", direction |-> direction, proxy |-> proxy,
           meshExternal |-> meshExternal])

\* Mutant of updateEds: no cluster is given an EDS configuration.
updateEds_Never(cluster) == cluster

updateEds(cluster) ==
    IF cluster.type # "EDS" THEN cluster
    ELSE [cluster EXCEPT !.edsClusterConfig =
             [serviceName |-> cluster.name, edsConfig |-> "ads"]]

convertResolution(proxy, resolution) ==
    CASE resolution = "ClientSideLB" -> "EDS"
      [] resolution = "DNSLB" -> "STRICT_DNS"
      [] resolution = "Passthrough" ->
            IF proxy.type = "sidecar" THEN "ORIGINAL_DST" ELSE "EDS"
      [] OTHER -> "EDS"

\* ---- the snapshot's lookups ----
\* push.DestinationRule(proxy, service): the rule of the service's host, if any
DestinationRule(push, proxy, service) ==
    LET hits == {i \in 1..Len(push.destinationRules) :
                    push.destinationRules[i].spec.host = service.hostname}
    IN IF hits = {} THEN Nil
       ELSE push.destinationRules[CHOOSE i \in hits : \A j \in hits : i <= j]

\* push.ServiceAccounts[hostname][port]
ServiceAccounts(push, hostname, port) ==
    IF <<hostname, port>> \in DOMAIN push.serviceAccounts
      THEN push.serviceAccounts[<<hostname, port>>] ELSE <<>>

\* &defaultDestinationRule
defaultDestinationRule == [host |-> "", trafficPolicy |-> Nil, subsets |-> <<>>]

castDestinationRuleOrDefault(config) ==
    IF config # Nil THEN config.spec ELSE defaultDestinationRule

\* util.BuildConfigInfoMetadata
BuildConfigInfoMetadata(configMeta) == [istio |-> [config |-> configMeta]]

\* model.GetNetworkView: the requested networks, the unnamed one by default
GetNetworkView(proxy) ==
    IF proxy.metadata.requestedNetworkView = {} THEN {""}
    ELSE proxy.metadata.requestedNetworkView

\* env.InstancesByPort(service, port, labels)
InstancesByPort(env, service, port, labels) ==
    SelectSeq(env.instances,
        LAMBDA i : /\ i.service.hostname = service.hostname
                   /\ i.endpoint.servicePort.port = port
                   /\ \/ Len(labels) = 0
                      \/ \E k \in 1..Len(labels) : labels[k] \subseteq i.labels)

\* ---- stat names ----
serviceStatPattern == "%SERVICE%"
serviceFQDNStatPattern == "%SERVICE_FQDN%"
servicePortStatPattern == "%SERVICE_PORT%"
servicePortNameStatPattern == "%SERVICE_PORT_NAME%"
subsetNameStatPattern == "%SUBSET_NAME%"

shortHostName(host, attributes) ==
    IF attributes.serviceRegistry = "Kubernetes"
      THEN attributes.name \o "." \o attributes.namespace
      ELSE host

\* A pattern is the sequence of its pieces, placeholders and plain text.
altStatName(statPattern, host, subset, port, attributes) ==
    [k \in 1..Len(statPattern) |->
        CASE statPattern[k] = serviceStatPattern -> shortHostName(host, attributes)
          [] statPattern[k] = serviceFQDNStatPattern -> host
          [] statPattern[k] = subsetNameStatPattern -> subset
          [] statPattern[k] = servicePortStatPattern -> ToString(port.port)
          [] statPattern[k] = servicePortNameStatPattern -> port.name
          [] OTHER -> statPattern[k]]

\* ---- endpoint materializer ----
\* scale of the normalized locality weights
maxNormalizedLbWeight == 128

RECURSIVE SumWeights(_)
SumWeights(eps) ==
    IF eps = <<>> THEN 0
    ELSE Head(eps).loadBalancingWeight + SumWeights(Tail(eps))

Ceil(a, b) == (a + b - 1) \div b

\* util.LocalityLbWeightNormalize: every group weight scaled to a share of
\* maxNormalizedLbWeight, groups kept in the order given.
LocalityLbWeightNormalize(endpoints) ==
    LET total == SumWeights(endpoints)
    IN IF \A k \in 1..Len(endpoints) : endpoints[k].loadBalancingWeight = 0
         THEN endpoints
         ELSE [k \in 1..Len(endpoints) |->
                  [endpoints[k] EXCEPT !.loadBalancingWeight =
                      Ceil(endpoints[k].loadBalancingWeight * maxNormalizedLbWeight,
                           total)]]

\* Mutant of ReachesMapRange: an error of InstancesByPort is ignored.
ReachesMapRange_IgnoreError(env, service) == service.resolution = "DNSLB"

\* The call ranges over the map of its groups: resolution is DNS and the
\* registry answers.
ReachesMapRange(env, service) ==
    service.resolution = "DNSLB" /\ ~env.instancesByPortFails

\* Mutant of buildLocalityLbEndpoints: the endpoints of every network are
\* sent, whatever the proxy asked to see.
buildLocalityLbEndpoints_AnyNetwork(env, proxyNetworkView, service, port, labels, mapOrder) ==
    IF ~ReachesMapRange(env, service) THEN <<>>
    ELSE
    With(SelectSeq(InstancesByPort(env, service, port, labels),
                   LAMBDA i : TRUE),
         LAMBDA visible :
    LET ep(i) == [address |-> [address |-> i.endpoint.address, port |-> i.endpoint.port],
                  loadBalancingWeight |->
                      IF i.endpoint.lbWeight > 0 THEN i.endpoint.lbWeight ELSE 1,
                  metadata |-> [uid |-> i.endpoint.uid, network |-> i.endpoint.network,
                                mtlsReady |-> i.mtlsReady]]
        present == {visible[k].endpoint.locality : k \in 1..Len(visible)}
        eps(l) == With(SelectSeq(visible, LAMBDA i : i.endpoint.locality = l),
                       LAMBDA of : [k \in 1..Len(of) |-> ep(of[k])])
    IN With(SelectSeq(mapOrder, LAMBDA l : l \in present), LAMBDA keys :
       LocalityLbWeightNormalize(
          [k \in 1..Len(keys) |->
              With(eps(keys[k]), LAMBDA group :
                  [locality |-> keys[k],
                   lbEndpoints |-> group,
                   loadBalancingWeight |-> SumWeights(group)])])))

\* mapOrder is the order in which this call's range over the map
\* lbEndpoints visits the localities.
buildLocalityLbEndpoints(env, proxyNetworkView, service, port, labels, mapOrder) ==
    IF ~ReachesMapRange(env, service) THEN <<>>
    ELSE
    With(SelectSeq(InstancesByPort(env, service, port, labels),
                   LAMBDA i : i.endpoint.network \in proxyNetworkView),
         LAMBDA visible :
    LET ep(i) == [address |-> [address |-> i.endpoint.address, port |-> i.endpoint.port],
                  loadBalancingWeight |->
                      IF i.endpoint.lbWeight > 0 THEN i.endpoint.lbWeight ELSE 1,
                  metadata |-> [uid |-> i.endpoint.uid, network |-> i.endpoint.network,
                                mtlsReady |-> i.mtlsReady]]
        present == {visible[k].endpoint.locality : k \in 1..Len(visible)}
        eps(l) == With(SelectSeq(visible, LAMBDA i : i.endpoint.locality = l),
                       LAMBDA of : [k \in 1..Len(of) |-> ep(of[k])])
    IN With(SelectSeq(mapOrder, LAMBDA l : l \in present), LAMBDA keys :
       LocalityLbWeightNormalize(
          [k \in 1..Len(keys) |->
              With(eps(keys[k]), LAMBDA group :
                  [locality |-> keys[k],
                   lbEndpoints |-> group,
                   loadBalancingWeight |-> SumWeights(group)])])))

buildInboundLocalityLbEndpoints(bind, port) ==
    <<[locality |-> "",
       lbEndpoints |-> <<[address |-> [address |-> bind, port |-> port],
                          loadBalancingWeight |-> 0,
                          metadata |-> Nil]>>,
       loadBalancingWeight |-> 0]>>

\* ---- plugin post-hooks ----
\* for _, p := range configgen.Plugins { p.OnXCluster(params, cluster) }:
\* the calls made, in order.  A plugin observes the cluster.
CallPlugins(configgen, hook, cluster) ==
    [k \in 1..Len(configgen.plugins) |->
        [plugin |-> configgen.plugins[k], hook |-> hook, cluster |-> cluster.name]]

\* ---- outbound generator ----
\* What a generator has produced so far: its clusters, the plugin calls it
\* made, and the number of ranges over an endpoint map it has run.
NoOutput == [clusters |-> <<>>, calls |-> <<>>, n |-> 0]

\* lines 234-285: the subsets of one rule for one service port; lbEndpoints
\* is the variable of the enclosing loop body, reassigned only for a subset
\* that has labels.
RECURSIVE outboundSubsets(_, _, _, _)
outboundSubsets(c, j, lbEndpoints, acc) ==
    IF j > Len(c.destinationRule.subsets) THEN acc
    ELSE
    LET subset == c.destinationRule.subsets[j]
        subsetClusterName ==
            BuildSubsetKey("outbound", subset.name, c.service.hostname, c.port.port)
        defaultSni ==
            BuildDNSSrvSubsetKey("outbound", subset.name, c.service.hostname, c.port.port)
        refill == c.discoveryType # "EDS" /\ subset.labels # {}
        ranged == refill /\ ReachesMapRange(c.env, c.service)
    IN With(IF refill
              THEN buildLocalityLbEndpoints(c.env, c.networkView, c.service,
                       c.port.port, <<subset.labels>>,
                       IF ranged THEN c.mapOrders[acc.n + 1] ELSE <<>>)
              ELSE lbEndpoints,
            LAMBDA lbe :
    LET s0 == buildDefaultCluster(c.env, subsetClusterName, c.discoveryType, lbe,
                  "outbound", c.proxy, Nil, c.service.meshExternal)
        s1 == [s0 EXCEPT !.altStatName =
                 IF Len(c.env.mesh.outboundClusterStatName) # 0
                   THEN altStatName(c.env.mesh.outboundClusterStatName,
                            c.service.hostname, subset.name, c.port,
                            c.service.attributes)
                   ELSE @]
        s2 == setUpstreamProtocol(c.env, c.proxy, s1, c.port, "outbound")
        opts(cl, policy) ==
            [env |-> c.env, cluster |-> cl, policy |-> policy, port |-> c.port,
             serviceAccounts |-> c.serviceAccounts, sni |-> defaultSni,
             clusterMode |-> "outbound", direction |-> "outbound",
             proxy |-> c.proxy, meshExternal |-> c.service.meshExternal]
        s3 == applyTrafficPolicy(opts(s2, c.destinationRule.trafficPolicy))
        s4 == applyTrafficPolicy(opts(s3, subset.trafficPolicy))
        s5 == updateEds(s4)
    IN With([s5 EXCEPT !.metadata = c.clusterMetadata, !.srcPort = c.port],
            LAMBDA subsetCluster :
       outboundSubsets(c, j + 1, lbe,
          [clusters |-> Append(acc.clusters, subsetCluster),
           calls |-> acc.calls \o CallPlugins(c.configgen, "OnOutboundCluster",
                                              subsetCluster),
           n |-> IF ranged THEN acc.n + 1 ELSE acc.n])))

\* lines 194-292: one port of one service
outboundPort(configgen, env, proxy, push, service, port, mapOrders, acc) ==
    LET destRule == DestinationRule(push, proxy, service)
        ranged == ReachesMapRange(env, service)
        networkView == GetNetworkView(proxy)
        discoveryType == convertResolution(proxy, service.resolution)
        clusterName == BuildSubsetKey("outbound", "", service.hostname, port.port)
        serviceAccounts == ServiceAccounts(push, service.hostname, port.port)
    IN With(buildLocalityLbEndpoints(env, networkView, service, port.port,
                <<>>, IF ranged THEN mapOrders[acc.n + 1] ELSE <<>>),
            LAMBDA lbEndpoints :
    LET d0 == buildDefaultCluster(env, clusterName, discoveryType, lbEndpoints,
                  "outbound", proxy, port, service.meshExternal)
        d1 == [d0 EXCEPT !.altStatName =
                 IF Len(env.mesh.outboundClusterStatName) # 0
                   THEN altStatName(env.mesh.outboundClusterStatName,
                            service.hostname, "", port, service.attributes)
                   ELSE @]
        d2 == setUpstreamProtocol(env, proxy, d1, port, "outbound")
        destinationRule == castDestinationRuleOrDefault(destRule)
        clusterMetadata == IF destRule # Nil
                             THEN BuildConfigInfoMetadata(destRule.configMeta)
                             ELSE Nil
        defaultSni == BuildDNSSrvSubsetKey("outbound", "", service.hostname, port.port)
        d3 == applyTrafficPolicy(
                 [env |-> env, cluster |-> d2, policy |-> destinationRule.trafficPolicy,
                  port |-> port, serviceAccounts |-> serviceAccounts,
                  sni |-> defaultSni, clusterMode |-> "outbound",
                  direction |-> "outbound", proxy |-> proxy,
                  meshExternal |-> service.meshExternal])
        d4 == [d3 EXCEPT !.metadata = clusterMetadata]
    IN With([updateEds(d4) EXCEPT !.srcPort = port], LAMBDA defaultCluster :
       [outboundSubsets(
           [configgen |-> configgen, env |-> env, proxy |-> proxy,
            service |-> service, port |-> port,
            destinationRule |-> destinationRule,
            discoveryType |-> discoveryType, networkView |-> networkView,
            serviceAccounts |-> serviceAccounts,
            clusterMetadata |-> clusterMetadata, mapOrders |-> mapOrders],
           1, lbEndpoints,
           [clusters |-> Append(acc.clusters, defaultCluster),
            calls |-> acc.calls,
            n |-> IF ranged THEN acc.n + 1 ELSE acc.n])
        EXCEPT !.calls = @ \o CallPlugins(configgen, "OnOutboundCluster",
                                          defaultCluster)]))

\* lines 190-293: the ports of one service, those of UDP skipped
RECURSIVE outboundPorts(_, _, _, _, _, _, _, _)
outboundPorts(configgen, env, proxy, push, service, k, mapOrders, acc) ==
    IF k > Len(service.ports) THEN acc
    ELSE outboundPorts(configgen, env, proxy, push, service, k + 1, mapOrders,
            IF service.ports[k].protocol = "UDP" THEN acc
            ELSE outboundPort(configgen, env, proxy, push, service,
                              service.ports[k], mapOrders, acc))

RECURSIVE outboundServices(_, _, _, _, _, _, _)
outboundServices(configgen, env, proxy, push, i, mapOrders, acc) ==
    IF i > Len(push.services) THEN acc
    ELSE outboundServices(configgen, env, proxy, push, i + 1, mapOrders,
            outboundPorts(configgen, env, proxy, push, push.services[i], 1,
                          mapOrders, acc))

buildOutboundClusters(configgen, env, proxy, push, mapOrders, n) ==
    outboundServices(configgen, env, proxy, push, 1, mapOrders,
                     [NoOutput EXCEPT !.n = n])

\* ---- SNI-DNAT generator ----
RECURSIVE sniDnatSubsets(_, _, _, _)
sniDnatSubsets(c, j, lbEndpoints, acc) ==
    IF j > Len(c.destinationRule.subsets) THEN acc
    ELSE
    LET subset == c.destinationRule.subsets[j]
        subsetClusterName ==
            BuildDNSSrvSubsetKey("outbound", subset.name, c.service.hostname, c.port.port)
        refill == c.discoveryType # "EDS" /\ subset.labels # {}
        ranged == refill /\ ReachesMapRange(c.env, c.service)
    IN With(IF refill
              THEN buildLocalityLbEndpoints(c.env, c.networkView, c.service,
                       c.port.port, <<subset.labels>>,
                       IF ranged THEN c.mapOrders[acc.n + 1] ELSE <<>>)
              ELSE lbEndpoints,
            LAMBDA lbe :
    LET s0 == buildDefaultCluster(c.env, subsetClusterName, c.discoveryType, lbe,
                  "outbound", c.proxy, Nil, c.service.meshExternal)
        s1 == [s0 EXCEPT !.tlsContext = Nil]
        opts(cl, policy) ==
            [env |-> c.env, cluster |-> cl, policy |-> policy, port |-> c.port,
             serviceAccounts |-> <<>>, sni |-> EmptySni,
             clusterMode |-> "sni-dnat", direction |-> "outbound",
             proxy |-> c.proxy, meshExternal |-> FALSE]
        s2 == applyTrafficPolicy(opts(s1, c.destinationRule.trafficPolicy))
        s3 == applyTrafficPolicy(opts(s2, subset.trafficPolicy))
        s4 == updateEds(s3)
        subsetCluster == [s4 EXCEPT !.metadata = c.clusterMetadata,
                                    !.srcPort = c.port]
    IN sniDnatSubsets(c, j + 1, lbe,
          [acc EXCEPT !.clusters = Append(@, subsetCluster),
                      !.n = IF ranged THEN @ + 1 ELSE @]))

\* lines 315-377: one port of one service
sniDnatPort(env, proxy, push, service, port, mapOrders, acc) ==
    LET destRule == DestinationRule(push, proxy, service)
        ranged == ReachesMapRange(env, service)
        networkView == GetNetworkView(proxy)
        discoveryType == convertResolution(proxy, service.resolution)
        clusterName == BuildDNSSrvSubsetKey("outbound", "", service.hostname, port.port)
    IN With(buildLocalityLbEndpoints(env, networkView, service, port.port,
                <<>>, IF ranged THEN mapOrders[acc.n + 1] ELSE <<>>),
            LAMBDA lbEndpoints :
    LET d0 == buildDefaultCluster(env, clusterName, discoveryType, lbEndpoints,
                  "outbound", proxy, Nil, service.meshExternal)
        d2 == With([d0 EXCEPT !.tlsContext = Nil], LAMBDA d1 :
              IF destRule = Nil THEN d1
              ELSE [applyTrafficPolicy(
                       [env |-> env, cluster |-> d1,
                        policy |-> destRule.spec.trafficPolicy, port |-> port,
                        serviceAccounts |-> <<>>, sni |-> EmptySni,
                        clusterMode |-> "sni-dnat", direction |-> "outbound",
                        proxy |-> proxy, meshExternal |-> FALSE])
                    EXCEPT !.metadata = BuildConfigInfoMetadata(destRule.configMeta)])
        defaultCluster == [updateEds(d2) EXCEPT !.srcPort = port]
    IN With([acc EXCEPT !.clusters = Append(@, defaultCluster),
                        !.n = IF ranged THEN @ + 1 ELSE @],
            LAMBDA start :
       IF destRule = Nil THEN start
       ELSE sniDnatSubsets(
               [env |-> env, proxy |-> proxy, service |-> service, port |-> port,
                destinationRule |-> destRule.spec, discoveryType |-> discoveryType,
                networkView |-> networkView,
                clusterMetadata |-> BuildConfigInfoMetadata(destRule.configMeta),
                mapOrders |-> mapOrders],
               1, lbEndpoints, start)))

RECURSIVE sniDnatPorts(_, _, _, _, _, _, _)
sniDnatPorts(env, proxy, push, service, k, mapOrders, acc) ==
    IF k > Len(service.ports) THEN acc
    ELSE sniDnatPorts(env, proxy, push, service, k + 1, mapOrders,
            IF service.ports[k].protocol = "UDP" THEN acc
            ELSE sniDnatPort(env, proxy, push, service, service.ports[k],
                             mapOrders, acc))

RECURSIVE sniDnatServices(_, _, _, _, _, _)
sniDnatServices(env, proxy, push, i, mapOrders, acc) ==
    IF i > Len(push.services) THEN acc
    ELSE sniDnatServices(env, proxy, push, i + 1, mapOrders,
            IF push.services[i].meshExternal THEN acc
            ELSE sniDnatPorts(env, proxy, push, push.services[i], 1, mapOrders, acc))

buildOutboundSniDnatClusters(env, proxy, push, mapOrders, n) ==
    sniDnatServices(env, proxy, push, 1, mapOrders, [NoOutput EXCEPT !.n = n])

\* ---- inbound generator ----
ManagementClusterHostname == "mgmtCluster"
InboundPassthroughBindIpv4 == "127.0.0.6"
InboundPassthroughBindIpv6 == "::6"

\* ipv4AndIpv6Support: the families of the proxy's addresses
ipv4AndIpv6Support(proxy) ==
    [ipv4 |-> \E k \in 1..Len(proxy.ipAddresses) : ~proxy.ipAddresses[k].v6,
     ipv6 |-> \E k \in 1..Len(proxy.ipAddresses) : proxy.ipAddresses[k].v6]

\* getActualWildcardAndLocalHost: the loopback of the family the proxy has
getActualWildcardAndLocalHost(proxy) ==
    IF ipv4AndIpv6Support(proxy).ipv4
      THEN [wildcard |-> "0.0.0.0", localHost |-> "127.0.0.1"]
      ELSE [wildcard |-> "::", localHost |-> "::1"]

generateInboundPassthroughClusters(env, proxy) ==
    LET fam == ipv4AndIpv6Support(proxy)
        sink(name, bind) ==
            [buildDefaultPassthroughCluster(env, proxy) EXCEPT
                !.name = name,
                !.upstreamBindConfig = [address |-> bind, portValue |-> 0]]
    IN (IF fam.ipv4
          THEN <<sink(InboundPassthroughClusterIpv4, InboundPassthroughBindIpv4)>>
          ELSE <<>>)
       \o (IF fam.ipv6
             THEN <<sink(InboundPassthroughClusterIpv6, InboundPassthroughBindIpv6)>>
             ELSE <<>>)

\* The result and the plugin calls made.
buildInboundClusterForPortOrUDS(configgen, pluginParams) ==
    LET instance == pluginParams.serviceInstance
        env == pluginParams.env
        servicePort == instance.endpoint.servicePort
        clusterName == BuildSubsetKey("inbound", servicePort.name,
                           instance.service.hostname, servicePort.port)
        localityLbEndpoints ==
            buildInboundLocalityLbEndpoints(pluginParams.bind, instance.endpoint.port)
        l0 == buildDefaultCluster(env, clusterName, "STATIC", localityLbEndpoints,
                  "inbound", pluginParams.node, Nil, FALSE)
        l1 == [l0 EXCEPT !.altStatName =
                 IF Len(env.mesh.inboundClusterStatName) # 0
                   THEN altStatName(env.mesh.inboundClusterStatName,
                            instance.service.hostname, "", servicePort,
                            instance.service.attributes)
                   ELSE @]
        cfg == DestinationRule(pluginParams.push, pluginParams.node, instance.service)
    IN With(setUpstreamProtocol(env, pluginParams.node, l1, servicePort, "inbound"),
            LAMBDA l2 :
       [cluster |->
           [(IF cfg # Nil /\ cfg.spec.trafficPolicy # Nil
               THEN [applyConnectionPool(env, l2,
                         cfg.spec.trafficPolicy.connectionPool, "inbound")
                     EXCEPT !.metadata = BuildConfigInfoMetadata(cfg.configMeta)]
               ELSE l2)
            EXCEPT !.srcPort = servicePort],
        calls |-> CallPlugins(configgen, "OnInboundCluster", l2)])

\* lines 537-553: one inbound cluster per distinct service port (a pointer,
\* ptr) of the proxy's instances
RECURSIVE inboundInstances(_, _, _, _, _, _, _, _)
inboundInstances(configgen, env, proxy, push, instances, i, have, acc) ==
    IF i > Len(instances) THEN acc
    ELSE
    LET instance == instances[i]
    IN inboundInstances(configgen, env, proxy, push, instances, i + 1,
          have \cup {instance.endpoint.servicePort.ptr},
          IF instance.endpoint.servicePort.ptr \in have THEN acc
          ELSE With(buildInboundClusterForPortOrUDS(configgen,
                        [env |-> env, node |-> proxy, serviceInstance |-> instance,
                         port |-> instance.endpoint.servicePort, push |-> push,
                         bind |-> getActualWildcardAndLocalHost(proxy).localHost]),
                    LAMBDA built :
                        [acc EXCEPT !.clusters = Append(@, built.cluster),
                                    !.calls = @ \o built.calls]))

\* lines 556-564: a cluster per management port
managementClusters(env, proxy, managementPorts) ==
    [k \in 1..Len(managementPorts) |->
        LET port == managementPorts[k]
            clusterName == BuildSubsetKey("inbound", port.name,
                               ManagementClusterHostname, port.port)
            localityLbEndpoints ==
                buildInboundLocalityLbEndpoints(
                    getActualWildcardAndLocalHost(proxy).localHost, port.port)
            mgmtCluster == buildDefaultCluster(env, clusterName, "STATIC",
                               localityLbEndpoints, "inbound", proxy, Nil, FALSE)
        IN [setUpstreamProtocol(env, proxy, mgmtCluster, port, "inbound")
               EXCEPT !.srcPort = port]]

\* protocol.Parse: the protocol a name stands for
Parse(s) ==
    CASE s \in {"TCP", "tcp"} -> "TCP"
      [] s \in {"UDP", "udp"} -> "UDP"
      [] s \in {"HTTP", "http"} -> "HTTP"
      [] s \in {"HTTP2", "http2"} -> "HTTP2"
      [] s \in {"GRPC", "grpc"} -> "GRPC"
      [] s \in {"Redis", "redis"} -> "Redis"
      [] OTHER -> "Unsupported"

\* largest port number of the model
MaxPortNumber == 99

\* strconv.Atoi on the decimal numerals up to MaxPortNumber
Atoi(s) ==
    IF \E v \in 0..MaxPortNumber : ToString(v) = s
      THEN [err |-> FALSE, value |-> CHOOSE v \in 0..MaxPortNumber : ToString(v) = s]
      ELSE [err |-> TRUE, value |-> 0]

\* A default endpoint is held as strings.Split(defaultEndpoint, ":") gives
\* it; the one that starts with model.UnixAddressPrefix, "unix://", is the
\* one whose first part is "unix".
HasUnixAddressPrefix(defaultEndpoint) ==
    Len(defaultEndpoint) >= 2 /\ defaultEndpoint[1] = "unix"

\* the string whose split at ":" is parts
RECURSIVE Join(_)
Join(parts) ==
    IF Len(parts) = 0 THEN ""
    ELSE IF Len(parts) = 1 THEN parts[1]
    ELSE parts[1] \o ":" \o Join(Tail(parts))

findServiceInstanceForIngressListener(instances, ingressListener) ==
    LET hits == {i \in 1..Len(instances) :
                    instances[i].endpoint.port = ingressListener.port.number}
    IN IF hits = {} THEN Nil
       ELSE LET realInstance == instances[CHOOSE i \in hits : \A j \in hits : i <= j]
            IN [endpoint |-> realInstance.endpoint,
                service |-> realInstance.service,
                labels |-> realInstance.labels,
                serviceAccount |-> realInstance.serviceAccount,
                mtlsReady |-> FALSE]

\* model.NetworkEndpoint{} and the service made up for a listener without
\* an instance
dummyInstance(sidecarScope) ==
    [endpoint |-> [family |-> "tcp", address |-> "", port |-> 0, servicePort |-> Nil,
                   network |-> "", locality |-> "", lbWeight |-> 0, uid |-> ""],
     service |-> [hostname |-> sidecarScope.config.name \o "."
                                  \o sidecarScope.config.namespace,
                  resolution |-> "ClientSideLB", meshExternal |-> FALSE,
                  ports |-> <<>>,
                  attributes |-> [name |-> sidecarScope.config.name,
                                  namespace |-> sidecarScope.config.namespace,
                                  serviceRegistry |-> ""]],
     labels |-> {},
     serviceAccount |-> "",
     mtlsReady |-> FALSE]

\* lines 568-635: a cluster per ingress listener of the sidecar scope
RECURSIVE inboundListeners(_, _, _, _, _, _, _)
inboundListeners(configgen, env, proxy, push, instances, k, acc) ==
    LET sidecarScope == proxy.sidecarScope
    IN
    IF k > Len(sidecarScope.config.ingress) THEN acc
    ELSE
    LET ingressListener == sidecarScope.config.ingress[k]
        listenPort == [ptr |-> "listenPort" \o ToString(k),
                       port |-> ingressListener.port.number,
                       protocol |-> Parse(ingressListener.port.protocol),
                       name |-> ingressListener.port.name]
        uds == HasUnixAddressPrefix(ingressListener.defaultEndpoint)
        parts == ingressListener.defaultEndpoint
        skip == ~uds /\ (Len(parts) < 2 \/ Atoi(parts[2]).err)
        endpointAddress ==
            IF uds THEN Join(parts)
            ELSE getActualWildcardAndLocalHost(proxy).localHost
        port == IF uds THEN 0 ELSE Atoi(parts[2]).value
        found == findServiceInstanceForIngressListener(instances, ingressListener)
        base == IF found = Nil THEN dummyInstance(sidecarScope) ELSE found
        instance == [base EXCEPT !.endpoint.family = IF uds THEN "unix" ELSE "tcp",
                                 !.endpoint.address = endpointAddress,
                                 !.endpoint.servicePort = listenPort,
                                 !.endpoint.port = port]
    IN inboundListeners(configgen, env, proxy, push, instances, k + 1,
          IF skip THEN acc
          ELSE With(buildInboundClusterForPortOrUDS(configgen,
                        [env |-> env, node |-> proxy, serviceInstance |-> instance,
                         port |-> listenPort, push |-> push, bind |-> endpointAddress]),
                    LAMBDA built :
                        [acc EXCEPT !.clusters = Append(@, built.cluster),
                                    !.calls = @ \o built.calls]))

buildInboundClusters(configgen, env, proxy, push, instances, managementPorts) ==
    IF ~proxy.sidecarScope.hasCustomIngressListeners
      THEN IF proxy.metadata.interceptionMode = "NONE" THEN NoOutput
           ELSE [inboundInstances(configgen, env, proxy, push, instances, 1, {},
                                  NoOutput)
                 EXCEPT !.clusters = @ \o managementClusters(env, proxy, managementPorts)]
      ELSE inboundListeners(configgen, env, proxy, push, instances, 1, NoOutput)

\* ---- what the ingress loop stores, and where ----
\* Mutant of ingressInstanceObject: the lookup hands out the instance it
\* found, not a copy of it.
ingressInstanceObject_Alias(instances, ingressListener, k) ==
    LET hits == {i \in 1..Len(instances) :
                    instances[i].endpoint.port = ingressListener.port.number}
    IN IF hits = {} THEN <<"new", 608, k>>
       ELSE <<"instances", CHOOSE i \in hits : \A j \in hits : i <= j>>

\* The object the loop's variable instance points at in iteration k: the
\* ServiceInstance findServiceInstanceForIngressListener allocates (line
\* 647, its Endpoint a copy of the real instance's struct) or the one
\* allocated at line 608; an element i of instances would be
\* <<"instances", i>>.
ingressInstanceObject(instances, ingressListener, k) ==
    IF findServiceInstanceForIngressListener(instances, ingressListener) = Nil
      THEN <<"new", 608, k>>
      ELSE <<"new", 647, k>>

\* lines 622-625: the four assignments to instance.Endpoint of every
\* iteration that reaches them, in order
ingressStores(proxy, instances) ==
    LET ingress == proxy.sidecarScope.config.ingress
        uds(k) == HasUnixAddressPrefix(ingress[k].defaultEndpoint)
        reached ==
            SelectSeq([k \in 1..Len(ingress) |-> k],
                LAMBDA k : \/ uds(k)
                           \/ /\ Len(ingress[k].defaultEndpoint) >= 2
                              /\ ~Atoi(ingress[k].defaultEndpoint[2]).err)
    IN [n \in 1..Len(reached) |->
          With(reached[n], LAMBDA k :
             [object |-> ingressInstanceObject(instances, ingress[k], k),
              family |-> IF uds(k) THEN "unix" ELSE "tcp",
              address |-> IF uds(k) THEN Join(ingress[k].defaultEndpoint)
                          ELSE getActualWildcardAndLocalHost(proxy).localHost,
              servicePort |-> [ptr |-> "listenPort" \o ToString(k),
                               port |-> ingress[k].port.number,
                               protocol |-> Parse(ingress[k].port.protocol),
                               name |-> ingress[k].port.name],
              port |-> IF uds(k) THEN 0 ELSE Atoi(ingress[k].defaultEndpoint[2]).value])]

\* proxy.ServiceInstances once BuildClusters has returned: the builders
\* store nothing but the assignments of the ingress loop
serviceInstancesAfter(proxy) ==
    IF proxy.type # "sidecar" \/ ~proxy.sidecarScope.hasCustomIngressListeners
      THEN proxy.serviceInstances
    ELSE With(ingressStores(proxy, proxy.serviceInstances), LAMBDA stores :
       [i \in 1..Len(proxy.serviceInstances) |->
          LET on == {n \in 1..Len(stores) : stores[n].object = <<"instances", i>>}
          IN IF on = {} THEN proxy.serviceInstances[i]
             ELSE With(stores[CHOOSE n \in on : \A m \in on : m <= n], LAMBDA s :
                    [proxy.serviceInstances[i] EXCEPT
                        !.endpoint.family = s.family,
                        !.endpoint.address = s.address,
                        !.endpoint.servicePort = s.servicePort,
                        !.endpoint.port = s.port])])

\* ---- orchestrator ----
\* loadbalancer.ApplyLocalityLBSetting: the load assignment now carries the
\* routing derived from the proxy's locality and the mesh setting.
ApplyLocalityLBSetting(locality, loadAssignment, localityLB, enableFailover) ==
    [loadAssignment EXCEPT !.localityLb =
        [locality |-> locality, setting |-> localityLB,
         enableFailover |-> enableFailover]]

applyLocalityLBSetting(locality, clusters, localityLB) ==
    IF locality = Nil \/ localityLB = Nil THEN clusters
    ELSE [k \in 1..Len(clusters) |->
             IF clusters[k].loadAssignment # Nil
               THEN [clusters[k] EXCEPT !.loadAssignment =
                        ApplyLocalityLBSetting(locality, @, localityLB,
                            clusters[k].outlierDetection # Nil)]
               ELSE clusters[k]]

\* envoyfilter.ApplyClusterPatches for a snapshot that holds no EnvoyFilter
ApplyClusterPatches(patchContext, proxy, push, clusters) == clusters

\* env.ManagementPorts(ip)
ManagementPorts(env, ip) ==
    IF ip.addr \in DOMAIN env.managementPorts THEN env.managementPorts[ip.addr]
    ELSE <<>>

RECURSIVE managementPortsOf(_, _, _)
managementPortsOf(env, proxy, k) ==
    IF k > Len(proxy.ipAddresses) THEN <<>>
    ELSE ManagementPorts(env, proxy.ipAddresses[k]) \o managementPortsOf(env, proxy, k + 1)

(***************************************************************************)
(* normalizeClusters, applied to cluster lists of its own.  A cluster is   *)
(* a record with a name; tag stands for the rest of its content, so that   *)
(* two clusters of the same name can differ.                               *)
(***************************************************************************)
\* push.Add(model.DuplicatedClusters, cluster.Name, proxy, msg)
DuplicateEvent(name) == [metric |-> "DuplicatedClusters", key |-> name]

RECURSIVE normalizeLoop(_, _, _, _)
normalizeLoop(clusters, i, have, acc) ==
    IF i > Len(clusters)
      THEN acc
      ELSE LET cluster == clusters[i] IN
           normalizeLoop(clusters, i + 1, have \cup {cluster.name},
               IF cluster.name \notin have
                 THEN [acc EXCEPT !.out = Append(@, cluster)]
                 ELSE [acc EXCEPT !.events = Append(@, DuplicateEvent(cluster.name))])

\* Mutant of normalizeClusters: of the clusters of one name the last is
\* kept (a cluster is rejected when its name occurs again later).
normalizeClusters_LastWins(clusters) ==
    LET Later(i) == \E j \in (i + 1)..Len(clusters) : clusters[j].name = clusters[i].name
        F[i \in 0..Len(clusters)] ==
            IF i = 0 THEN [out |-> <<>>, events |-> <<>>]
            ELSE IF Later(i)
              THEN [F[i - 1] EXCEPT !.events = Append(@, DuplicateEvent(clusters[i].name))]
              ELSE [F[i - 1] EXCEPT !.out = Append(@, clusters[i])]
    IN F[Len(clusters)]

\* The result and the events recorded on the push context.
normalizeClusters(clusters) ==
    normalizeLoop(clusters, 1, {}, [out |-> <<>>, events |-> <<>>])

\* longest cluster list handed to normalizeClusters
MaxClusters == 4
\* distinct contents of a cluster of one name
MaxTags == 2

NormNames == {"outbound|80||a", "BlackHoleCluster"}

NormPool == [name : NormNames, tag : 1..MaxTags]

SeqsUpTo(S, n) == UNION {[1..k -> S] : k \in 1..n}

\* the queue is not in use
QueueIdle ==
    /\ queue = <<>>
    /\ closing = FALSE
    /\ mu = Free
    /\ runPc = "off"
    /\ cur = 0
    /\ stopCh = FALSE
    /\ stopPc = "none"
    /\ timers = {}
    /\ nextId = 1
    /\ failed = [t \in Tasks |-> 0]
    /\ succeeded = {}
    /\ running = {}
    /\ appended = <<>>
    /\ invoked = <<>>
    /\ dropped = <<>>

NormInit ==
    /\ nIn \in SeqsUpTo(NormPool, MaxClusters)
    /\ nOut = <<>>
    /\ nEvents = <<>>
    /\ nPc = "ready"
    /\ QueueIdle
    /\ BuildIdle
    /\ PolicyIdle
    /\ ChainIdle

\* BuildClusters' last step: clusters = normalizeClusters(push, proxy, clusters)
NormalizeClusters ==
    /\ nPc = "ready"
    /\ LET r == normalizeClusters(nIn) IN
         /\ nOut' = r.out
         /\ nEvents' = r.events
    /\ nPc' = "done"
    /\ UNCHANGED nIn
    /\ UNCHANGED <<qvars, cvars, pvars, hvars>>

NormNext == NormalizeClusters

NormSpec == NormInit /\ [][NormNext]_vars

(***************************************************************************)
(* BuildClusters.  mapOrders[k] is the order in which the k-th range over  *)
(* an endpoint map of the call visits the localities.                      *)
(***************************************************************************)
\* lines 114-132: the branch of a sidecar
BuildClusters_Sidecar(configgen, env, proxy, push, mapOrders) ==
    With(buildOutboundClusters(configgen, env, proxy, push, mapOrders, 0), LAMBDA ob :
    With(buildInboundClusters(configgen, env, proxy, push, proxy.serviceInstances,
                              managementPortsOf(env, proxy, 1)), LAMBDA ib :
    LET o1 == ob.clusters \o <<buildBlackHoleCluster(env),
                               buildDefaultPassthroughCluster(env, proxy)>>
        o2 == applyLocalityLBSetting(proxy.locality, o1, env.mesh.localityLbSetting)
        outboundClusters == ApplyClusterPatches("SIDECAR_OUTBOUND", proxy, push, o2)
        i1 == ib.clusters \o generateInboundPassthroughClusters(env, proxy)
        inboundClusters == ApplyClusterPatches("SIDECAR_INBOUND", proxy, push, i1)
    IN With(normalizeClusters(outboundClusters \o inboundClusters), LAMBDA norm :
       [clusters |-> norm.out, events |-> norm.events,
        calls |-> ob.calls \o ib.calls, n |-> ob.n])))

\* lines 134-143: the branch of a gateway
BuildClusters_Gateway(configgen, env, proxy, push, mapOrders) ==
    With(buildOutboundClusters(configgen, env, proxy, push, mapOrders, 0), LAMBDA ob :
    With(IF proxy.type = "router" /\ proxy.metadata.routerMode = "sni-dnat"
           THEN buildOutboundSniDnatClusters(env, proxy, push, mapOrders, ob.n)
           ELSE [NoOutput EXCEPT !.n = ob.n], LAMBDA sni :
    LET o1 == Append(ob.clusters, buildBlackHoleCluster(env)) \o sni.clusters
        o2 == applyLocalityLBSetting(proxy.locality, o1, env.mesh.localityLbSetting)
        outboundClusters == ApplyClusterPatches("GATEWAY", proxy, push, o2)
    IN With(normalizeClusters(outboundClusters), LAMBDA norm :
       [clusters |-> norm.out, events |-> norm.events,
        calls |-> ob.calls, n |-> sni.n])))

\* Mutant of BuildClusters: every proxy is built for as a sidecar is.
BuildClusters_AllSidecar(configgen, env, proxy, push, mapOrders) ==
    BuildClusters_Sidecar(configgen, env, proxy, push, mapOrders)

\* Mutant of BuildClusters: every proxy is built for as a gateway is.
BuildClusters_AllGateway(configgen, env, proxy, push, mapOrders) ==
    BuildClusters_Gateway(configgen, env, proxy, push, mapOrders)

\* The clusters returned, the events recorded on the push context, the
\* plugin calls made, and the number of ranges over an endpoint map run.
BuildClusters(configgen, env, proxy, push, mapOrders) ==
    IF proxy.type = "sidecar"
      THEN BuildClusters_Sidecar(configgen, env, proxy, push, mapOrders)
      ELSE BuildClusters_Gateway(configgen, env, proxy, push, mapOrders)

(***************************************************************************)
(* The snapshots, environments and proxies BuildClusters is called with.   *)
(***************************************************************************)
\* calls of BuildClusters on one input
MaxRuns == 2
\* ranges over an endpoint map within one call
MaxMapRanges == 4

Seconds(s) == [seconds |-> s]

Localities == {"r1/z1", "r2/z1"}

\* the orders in which a range over a map can visit its keys
LocalityOrders ==
    {o \in [1..Cardinality(Localities) -> Localities] :
        \A i, j \in DOMAIN o : i # j => o[i] # o[j]}

httpPort == [ptr |-> "a.http", name |-> "http", port |-> 80, protocol |-> "HTTP"]
dnsPort == [ptr |-> "a.dns", name |-> "dns", port |-> 53, protocol |-> "UDP"]
tcpPort == [ptr |-> "b.tcp", name |-> "tcp", port |-> 90, protocol |-> "TCP"]
grpcPort == [ptr |-> "c.grpc", name |-> "grpc", port |-> 70, protocol |-> "GRPC"]
redisPort == [ptr |-> "c.redis", name |-> "redis", port |-> 63, protocol |-> "Redis"]

svcA == [hostname |-> "a.default.svc.cluster.local", resolution |-> "ClientSideLB",
         meshExternal |-> FALSE, ports |-> <<httpPort, dnsPort>>,
         attributes |-> [name |-> "a", namespace |-> "default",
                         serviceRegistry |-> "Kubernetes"]]

svcB(meshExternal) ==
    [hostname |-> "b.example.org", resolution |-> "DNSLB",
     meshExternal |-> meshExternal, ports |-> <<tcpPort>>,
     attributes |-> [name |-> "b", namespace |-> "default",
                     serviceRegistry |-> "External"]]

svcC == [hostname |-> "c.example.org", resolution |-> "Passthrough",
         meshExternal |-> TRUE, ports |-> <<grpcPort, redisPort>>,
         attributes |-> [name |-> "c", namespace |-> "default",
                         serviceRegistry |-> "External"]]

ServicesPool == {<<svcA>>, <<svcA, svcB(FALSE)>>, <<svcB(TRUE), svcC>>,
                 <<svcA, svcC, svcA>>}

\* the registry: endpoints of b.example.org in two localities and two
\* networks
Endpoint(address, servicePort, network, locality, lbWeight, uid) ==
    [family |-> "tcp", address |-> address, port |-> servicePort.port,
     servicePort |-> servicePort, network |-> network, locality |-> locality,
     lbWeight |-> lbWeight, uid |-> uid]

RegistryInstances ==
    <<[endpoint |-> Endpoint("10.1.0.1", tcpPort, "", "r1/z1", 0, "b1"),
       service |-> svcB(FALSE), labels |-> {<<"version", "v1">>},
       serviceAccount |-> "spiffe://b", mtlsReady |-> TRUE],
      [endpoint |-> Endpoint("10.1.0.2", tcpPort, "", "r2/z1", 2, "b2"),
       service |-> svcB(FALSE), labels |-> {<<"version", "v1">>, <<"tier", "x">>},
       serviceAccount |-> "spiffe://b", mtlsReady |-> FALSE],
      [endpoint |-> Endpoint("10.1.0.3", tcpPort, "net2", "r1/z1", 5, "b3"),
       service |-> svcB(FALSE), labels |-> {<<"version", "v2">>},
       serviceAccount |-> "spiffe://b", mtlsReady |-> FALSE]>>

SimpleTLS == [mode |-> "SIMPLE", clientCertificate |-> "", privateKey |-> "",
              caCertificates |-> "/etc/ca.pem", subjectAltNames |-> <<"c.example.org">>,
              sni |-> Literal("c.example.org")]
KeylessMutualTLS == [mode |-> "MUTUAL", clientCertificate |-> "/etc/cert.pem",
                     privateKey |-> "", caCertificates |-> "",
                     subjectAltNames |-> <<>>, sni |-> EmptySni]
IstioMutualTLS == [mode |-> "ISTIO_MUTUAL", clientCertificate |-> "", privateKey |-> "",
                   caCertificates |-> "", subjectAltNames |-> <<>>, sni |-> EmptySni]

policyB ==
    [connectionPool |->
        [http |-> [http2MaxRequests |-> 0, http1MaxPendingRequests |-> 8,
                   maxRequestsPerConnection |-> 2, maxRetries |-> 0,
                   idleTimeout |-> Seconds(30)],
         tcp |-> [connectTimeout |-> Seconds(5), maxConnections |-> 7,
                  tcpKeepalive |-> [probes |-> 3, time |-> Seconds(60),
                                    interval |-> Nil]]],
     outlierDetection |-> [baseEjectionTime |-> Seconds(20), consecutiveErrors |-> 3,
                           interval |-> Nil, maxEjectionPercent |-> 50,
                           minHealthPercent |-> 0],
     loadBalancer |-> [kind |-> "simple", simple |-> "LEAST_CONN",
                       minimumRingSize |-> 0],
     tls |-> Nil,
     portLevelSettings |-> <<>>]

policyHash ==
    [connectionPool |-> Nil, outlierDetection |-> Nil,
     loadBalancer |-> [kind |-> "consistentHash", simple |-> "ROUND_ROBIN",
                       minimumRingSize |-> 0],
     tls |-> IstioMutualTLS,
     portLevelSettings |-> <<>>]

policyA ==
    [connectionPool |-> Nil, outlierDetection |-> Nil, loadBalancer |-> Nil,
     tls |-> SimpleTLS,
     portLevelSettings |->
        <<[port |-> [number |-> 80], connectionPool |-> Nil, outlierDetection |-> Nil,
           loadBalancer |-> [kind |-> "simple", simple |-> "RANDOM",
                             minimumRingSize |-> 0],
           tls |-> KeylessMutualTLS]>>]

ruleA == [configMeta |-> [name |-> "a-rule", namespace |-> "default"],
          spec |-> [host |-> "a.default.svc.cluster.local",
                    trafficPolicy |-> policyA,
                    subsets |-> <<[name |-> "v1", labels |-> {<<"version", "v1">>},
                                   trafficPolicy |-> Nil]>>]]

ruleB == [configMeta |-> [name |-> "b-rule", namespace |-> "default"],
          spec |-> [host |-> "b.example.org",
                    trafficPolicy |-> policyB,
                    subsets |-> <<[name |-> "v1", labels |-> {<<"version", "v1">>},
                                   trafficPolicy |-> Nil],
                                  [name |-> "all", labels |-> {},
                                   trafficPolicy |-> policyHash]>>]]

\* a root policy that asks for passthrough load balancing and no TLS
policyPassthrough ==
    [connectionPool |-> Nil, outlierDetection |-> Nil,
     loadBalancer |-> [kind |-> "simple", simple |-> "PASSTHROUGH",
                       minimumRingSize |-> 0],
     tls |-> [mode |-> "DISABLE", clientCertificate |-> "", privateKey |-> "",
              caCertificates |-> "", subjectAltNames |-> <<>>, sni |-> EmptySni],
     portLevelSettings |-> <<>>]

ruleC == [configMeta |-> [name |-> "c-rule", namespace |-> "default"],
          spec |-> [host |-> "c.example.org",
                    trafficPolicy |-> policyPassthrough,
                    subsets |-> <<[name |-> "hash", labels |-> {},
                                   trafficPolicy |-> policyHash]>>]]

DestinationRulesPool == {<<>>, <<ruleA>>, <<ruleB>>, <<ruleA, ruleB, ruleC>>}

PushPool ==
    [services : ServicesPool,
     destinationRules : DestinationRulesPool,
     serviceAccounts : {(<<"b.example.org", 90>> :> <<"spiffe://b">>)}]

mgmtHttpPort == [ptr |-> "mgmt.http", name |-> "http-health", port |-> 15,
                 protocol |-> "HTTP"]
mgmtUdpPort == [ptr |-> "mgmt.udp", name |-> "udp-probe", port |-> 16,
                protocol |-> "UDP"]

Mesh(enableAutoMtls, sdsUdsPath, tuned) ==
    [connectTimeout |-> Seconds(10),
     tcpKeepalive |-> IF tuned THEN [probes |-> 0, time |-> Seconds(7200),
                                     interval |-> Seconds(75)]
                      ELSE Nil,
     sdsUdsPath |-> sdsUdsPath,
     enableAutoMtls |-> enableAutoMtls,
     outboundClusterStatName |->
         IF tuned THEN <<serviceStatPattern, "_", servicePortStatPattern, "_",
                         subsetNameStatPattern>>
         ELSE <<>>,
     inboundClusterStatName |->
         IF tuned THEN <<"in_", serviceFQDNStatPattern, "_", servicePortNameStatPattern>>
         ELSE <<>>,
     localityLbSetting |-> IF tuned THEN [distribute |-> <<>>, failover |-> <<>>]
                           ELSE Nil]

EnvPool ==
    {[mesh |-> Mesh(auto, sds, tuned),
      features |-> [enableRedisFilter |-> TRUE, sniffInbound |-> FALSE,
                    sniffOutbound |-> tuned, respectDnsTtl |-> TRUE],
      instances |-> RegistryInstances,
      instancesByPortFails |-> FALSE,
      managementPorts |-> ("10.0.0.1" :> <<mgmtHttpPort, mgmtUdpPort>>)] :
        auto \in BOOLEAN, sds \in {"", "/var/run/sds/uds_path"}, tuned \in BOOLEAN}
      \cup
    \* a registry whose InstancesByPort returns an error
    {[mesh |-> Mesh(TRUE, "", FALSE),
      features |-> [enableRedisFilter |-> TRUE, sniffInbound |-> FALSE,
                    sniffOutbound |-> FALSE, respectDnsTtl |-> TRUE],
      instances |-> RegistryInstances,
      instancesByPortFails |-> TRUE,
      managementPorts |-> ("10.0.0.1" :> <<mgmtHttpPort, mgmtUdpPort>>)]}

\* the instances of service a the sidecar's workload backs: two of them
\* share the service port
WorkloadInstances ==
    <<[endpoint |-> Endpoint("10.0.0.1", httpPort, "", "r1/z1", 0, "a1"),
       service |-> svcA, labels |-> {<<"version", "v1">>},
       serviceAccount |-> "spiffe://a", mtlsReady |-> TRUE],
      [endpoint |-> Endpoint("10.0.0.1", dnsPort, "", "r1/z1", 0, "a1"),
       service |-> svcA, labels |-> {<<"version", "v1">>},
       serviceAccount |-> "spiffe://a", mtlsReady |-> TRUE],
      [endpoint |-> Endpoint("fd00::1", httpPort, "", "r1/z1", 0, "a1"),
       service |-> svcA, labels |-> {<<"version", "v1">>},
       serviceAccount |-> "spiffe://a", mtlsReady |-> TRUE]>>

IngressListeners ==
    <<[port |-> [number |-> 80, protocol |-> "HTTP", name |-> "http"],
       defaultEndpoint |-> <<"127.0.0.1", "80">>],
      [port |-> [number |-> 53, protocol |-> "UDP", name |-> "dns"],
       defaultEndpoint |-> <<"", "53">>],
      [port |-> [number |-> 70, protocol |-> "TCP", name |-> "uds"],
       defaultEndpoint |-> <<"unix", "///var/run/app.sock">>],
      [port |-> [number |-> 71, protocol |-> "TCP", name |-> "nocolon"],
       defaultEndpoint |-> <<"127.0.0.1">>],
      [port |-> [number |-> 72, protocol |-> "TCP", name |-> "noport"],
       defaultEndpoint |-> <<"127.0.0.1", "http">>],
      [port |-> [number |-> 73, protocol |-> "TCP", name |-> "last"],
       defaultEndpoint |-> <<"127.0.0.1", "73">>]>>

NoSidecarScope ==
    [hasCustomIngressListeners |-> FALSE,
     config |-> [name |-> "default", namespace |-> "istio-system", ingress |-> <<>>]]

CustomSidecarScope ==
    [hasCustomIngressListeners |-> TRUE,
     config |-> [name |-> "sc", namespace |-> "default", ingress |-> IngressListeners]]

Proxy(type, routerMode, interceptionMode, ipAddresses, sidecarScope, serviceInstances) ==
    [type |-> type,
     istioVersionGE13 |-> TRUE,
     metadata |-> [tlsClientRootCert |-> "", tlsClientCertChain |-> "",
                   tlsClientKey |-> "", requestedNetworkView |-> {},
                   routerMode |-> routerMode, interceptionMode |-> interceptionMode],
     ipAddresses |-> ipAddresses,
     locality |-> [region |-> "r1", zone |-> "z1"],
     sidecarScope |-> sidecarScope,
     serviceInstances |-> serviceInstances]

IPv4 == [addr |-> "10.0.0.1", v6 |-> FALSE]
IPv6 == [addr |-> "fd00::1", v6 |-> TRUE]

ProxyPool ==
    {Proxy("sidecar", "standard", "REDIRECT", <<IPv4>>, NoSidecarScope,
           WorkloadInstances),
     Proxy("sidecar", "standard", "REDIRECT", <<IPv4, IPv6>>, CustomSidecarScope,
           WorkloadInstances),
     Proxy("sidecar", "standard", "NONE", <<IPv6>>, NoSidecarScope, WorkloadInstances),
     Proxy("router", "standard", "REDIRECT", <<IPv4>>, NoSidecarScope, <<>>),
     Proxy("router", "sni-dnat", "REDIRECT", <<IPv4>>, NoSidecarScope, <<>>),
     \* a sidecar older than 1.3 that asks for the endpoints of network net2
     [Proxy("sidecar", "standard", "REDIRECT", <<IPv4>>, NoSidecarScope,
            WorkloadInstances)
        EXCEPT !.istioVersionGE13 = FALSE,
               !.metadata.requestedNetworkView = {"net2"}],
     \* a sidecar whose workload is an endpoint of the mesh-external service b
     Proxy("sidecar", "standard", "REDIRECT", <<IPv4>>, NoSidecarScope,
           <<[endpoint |-> Endpoint("10.0.0.1", tcpPort, "", "r1/z1", 0, "b0"),
              service |-> svcB(TRUE), labels |-> {<<"version", "v1">>},
              serviceAccount |-> "spiffe://b", mtlsReady |-> TRUE]>>)}

ConfiggenPool == {[plugins |-> <<"authn", "mixer">>]}

(***************************************************************************)
(* BuildClusters called, again and again, on one input.                    *)
(***************************************************************************)
BuildInit ==
    /\ argConfiggen \in ConfiggenPool
    /\ argEnv \in EnvPool
    /\ argProxy \in ProxyPool
    /\ argPush \in PushPool
    /\ outs = <<>>
    /\ QueueIdle
    /\ NormIdle
    /\ PolicyIdle
    /\ ChainIdle

\* an order for every range, to count the ranges of a call with
SomeOrders == [k \in 1..MaxMapRanges |-> CHOOSE o \in LocalityOrders : TRUE]

\* The ranges over an endpoint map a call runs do not depend on their orders.
MapRanges(configgen, env, proxy, push) ==
    BuildClusters(configgen, env, proxy, push, SomeOrders).n

Build ==
    /\ Len(outs) < MaxRuns
    /\ \E mapOrders \in [1..MapRanges(argConfiggen, argEnv, argProxy, argPush)
                            -> LocalityOrders] :
          outs' = Append(outs, BuildClusters(argConfiggen, argEnv, argProxy, argPush,
                                             mapOrders))
    /\ argProxy' = [argProxy EXCEPT !.serviceInstances = serviceInstancesAfter(argProxy)]
    /\ UNCHANGED <<argConfiggen, argEnv, argPush>>
    /\ UNCHANGED <<qvars, nvars, pvars, hvars>>

BuildNext == Build

BuildSpec == BuildInit /\ [][BuildNext]_vars

(***************************************************************************)
(* The traffic-policy functions on their own: SelectTrafficPolicyComponents *)
(* on a policy and a port, and the two applyTrafficPolicy calls the subset *)
(* loop of buildOutboundClusters makes on one cluster.                     *)
(***************************************************************************)
\* longest list of port-level settings of a policy
MaxPortSettings == 2

\* port-level entries: one without a port, two for port 80 (the second
\* with no facet at all), one for port 90
PortSettingsPool ==
    {[port |-> Nil, connectionPool |-> Nil, outlierDetection |-> Nil,
      loadBalancer |-> [kind |-> "simple", simple |-> "RANDOM", minimumRingSize |-> 0],
      tls |-> Nil],
     [port |-> [number |-> httpPort.port], connectionPool |-> Nil,
      outlierDetection |-> Nil,
      loadBalancer |-> [kind |-> "simple", simple |-> "ROUND_ROBIN",
                        minimumRingSize |-> 0],
      tls |-> SimpleTLS],
     [port |-> [number |-> httpPort.port], connectionPool |-> Nil,
      outlierDetection |-> Nil, loadBalancer |-> Nil, tls |-> Nil],
     [port |-> [number |-> tcpPort.port],
      connectionPool |-> [http |-> Nil, tcp |-> policyB.connectionPool.tcp],
      outlierDetection |-> policyB.outlierDetection,
      loadBalancer |-> policyHash.loadBalancer,
      tls |-> IstioMutualTLS]}

PolicyPool ==
    {Nil, policyA, policyB, policyHash, policyPassthrough}
      \cup {[policyB EXCEPT !.tls = KeylessMutualTLS, !.portLevelSettings = pls] :
               pls \in SeqsUpTo(PortSettingsPool, MaxPortSettings)}

PolicyInit ==
    /\ tpRoot \in PolicyPool
    /\ tpSubset \in {Nil, policyA, policyB, policyHash, policyPassthrough}
    /\ tpPort \in {Nil, httpPort, tcpPort, redisPort}
    /\ tpSelected = Nil
    /\ tpLayered = Nil
    /\ argEnv \in EnvPool
    /\ argProxy \in {p \in ProxyPool : /\ p.type = "sidecar"
                                       /\ p.ipAddresses = <<IPv4>>
                                       /\ p.serviceInstances = WorkloadInstances}
    /\ argConfiggen = Nil
    /\ argPush = Nil
    /\ outs = <<>>
    /\ QueueIdle
    /\ NormIdle
    /\ ChainIdle

Select ==
    /\ tpSelected = Nil
    /\ tpSelected' = SelectTrafficPolicyComponents(tpRoot, tpPort)
    /\ UNCHANGED <<tpRoot, tpSubset, tpPort, tpLayered>>
    /\ UNCHANGED <<qvars, nvars, cvars, hvars>>

\* lines 249-260 and 263-274: the options of the two calls
subsetOpts(env, proxy, cluster, policy, port, meshExternal) ==
    [env |-> env, cluster |-> cluster, policy |-> policy, port |-> port,
     serviceAccounts |-> <<"spiffe://b">>,
     sni |-> BuildDNSSrvSubsetKey("outbound", "v1", "b.example.org", port.port),
     clusterMode |-> "outbound", direction |-> "outbound",
     proxy |-> proxy, meshExternal |-> meshExternal]

\* lines 241-275: a subset cluster is built, the root policy is applied to
\* it, then the subset's
Layer ==
    /\ tpLayered = Nil
    /\ tpPort # Nil
    /\ \E discoveryType \in {"EDS", "STRICT_DNS", "ORIGINAL_DST"},
          meshExternal \in BOOLEAN :
          With(setUpstreamProtocol(argEnv, argProxy,
                  buildDefaultCluster(argEnv,
                      BuildSubsetKey("outbound", "v1", "b.example.org", tpPort.port),
                      discoveryType, <<>>, "outbound", argProxy, Nil, meshExternal),
                  tpPort, "outbound"),
               LAMBDA subsetCluster :
                  tpLayered' =
                     [meshExternal |-> meshExternal,
                      before |-> subsetCluster,
                      after |->
                         applyTrafficPolicy(subsetOpts(argEnv, argProxy,
                            applyTrafficPolicy(subsetOpts(argEnv, argProxy,
                               subsetCluster, tpRoot, tpPort, meshExternal)),
                            tpSubset, tpPort, meshExternal))])
    /\ UNCHANGED <<tpRoot, tpSubset, tpPort, tpSelected>>
    /\ UNCHANGED <<qvars, nvars, cvars, hvars>>

PolicyNext == Select \/ Layer

PolicySpec == PolicyInit /\ [][PolicyNext]_vars

(***************************************************************************)
(* Scheduling.  The Go scheduler runs every runnable goroutine, a blocked  *)
(* Lock is granted once the mutex is released often enough (sync.Mutex     *)
(* hands the lock over in starvation mode), a timer fires after its delay, *)
(* and a handler is taken to return.  Nothing obliges a client to call     *)
(* Push or the owner of the stop channel to signal it.                     *)
(***************************************************************************)
QueueFairness ==
    /\ WF_vars(Run_Start)
    /\ SF_vars(Run_Lock)
    /\ WF_vars(Run_Wait)
    /\ WF_vars(Run_Return)
    /\ WF_vars(Run_Dequeue)
    /\ WF_vars(Run_Invoke)
    /\ WF_vars(\E t \in Tasks : Handler_Ok(t) \/ Handler_Err(t))
    /\ WF_vars(Stop_Recv)
    /\ SF_vars(Stop_Lock)
    /\ WF_vars(Stop_Set)
    /\ WF_vars(Push_Body)
    /\ \A t \in Tasks : SF_vars(Push_Retry(t))

FairQueueSpec == QueueSpec /\ QueueFairness

\* Task t is somewhere in the machinery: queued, held by a retry timer,
\* carried by a Push, or dequeued by Run and not yet finished.
InFlight(t) ==
    \/ t \in Range(queue)
    \/ t \in timers
    \/ mu.who = "push" /\ mu.item = t
    \/ runPc \in {"invoke", "handle"} /\ cur = t
    \/ t \in running

Accepted(t) == t \in Range(appended)

(***************************************************************************)
(* C2.  Once the stop channel is signalled, Run eventually returns.        *)
(* The stop goroutine sets closing without signalling the condition        *)
(* variable, so a Run blocked in Wait on an empty queue is never woken.    *)
(***************************************************************************)
C2_StopLeadsToReturn == stopCh ~> (runPc = "done")

(***************************************************************************)
(* C3.  Handlers are invoked in the order of the appends to the queue: at  *)
(* every moment the sequence of invocations is a prefix of the sequence of *)
(* appends (a retry's re-push is an append of its own).                    *)
(***************************************************************************)
C3_FifoOrder ==
    /\ Len(invoked) <= Len(appended)
    /\ \A i \in 1..Len(invoked) : invoked[i] = appended[i]

C3_Witness ==
    /\ Len(invoked) >= 3
    /\ \E t \in Tasks : Count(invoked, t) >= 2
    /\ Cardinality(Range(invoked)) >= 2

C4_Safety ==
    \A t \in Tasks :
        /\ (Accepted(t) /\ t \notin succeeded /\ ~InFlight(t))
              => (closing /\ t \in Range(dropped))
        /\ Count(invoked, t) <= failed[t] + 1
        /\ Count(invoked, t) > 1 => failed[t] >= Count(invoked, t) - 1

C5_PushOnlyIfNotClosing ==
    [][ /\ (mu.who = "push" /\ mu'.who = "none")
            => queue' = IF closing THEN queue ELSE Append(queue, mu.item)
        /\ closing => closing'
        /\ closing => Len(queue') <= Len(queue) ]_vars

C5_Witness ==
    /\ closing
    /\ \E i \in 1..Len(dropped) : dropped[i] \in Range(appended)
    /\ \E i \in 1..Len(dropped) : dropped[i] \notin Range(appended)

(***************************************************************************)
(* C6.  Run returns only with closing set and the queue empty, after the   *)
(* handler of every appended task has been invoked; the queue stays empty  *)
(* once Run has returned.                                                  *)
(***************************************************************************)
C6_ShutdownDrains ==
    runPc = "done" =>
        /\ closing
        /\ queue = <<>>
        /\ invoked = appended
        /\ running = {}

C6_Witness ==
    /\ runPc = "done"
    /\ Len(appended) >= 2
    /\ mu.who = "push"

(***************************************************************************)
(* C7.  Handler invocations never overlap: at most one handler runs, it is *)
(* the handler of the task Run dequeued last, and Run waits for it.        *)
(***************************************************************************)
C7_HandlersSerialized ==
    /\ Cardinality(running) <= 1
    /\ running # {} => (runPc = "handle" /\ running = {cur})

C7_Witness ==
    /\ running # {}
    /\ mu.who = "push"
    /\ mu.item \in Range(invoked)
    /\ stopPc = "lock"

(***************************************************************************)
(* C1.  The result of normalizeClusters is the emitted list without the    *)
(* clusters whose name occurred earlier: names are pairwise distinct, the  *)
(* first cluster of a name is kept as it is, kept clusters keep their      *)
(* order, and one duplicate event with the rejected name is recorded per   *)
(* removed cluster, in order, and none otherwise.                          *)
(***************************************************************************)
FirstOfName(s, i) == \A j \in 1..(i - 1) : s[j].name # s[i].name

\* the k-th smallest element of a set of indices
Nth(I, k) == CHOOSE i \in I : Cardinality({j \in I : j <= i}) = k

C1_NormalizeFirstWins ==
    nPc = "done" =>
        LET kept == {i \in 1..Len(nIn) : FirstOfName(nIn, i)}
            rejected == (1..Len(nIn)) \ kept
        IN  /\ \A i, j \in 1..Len(nOut) : nOut[i].name = nOut[j].name => i = j
            /\ Len(nOut) = Cardinality(kept)
            /\ \A k \in 1..Len(nOut) : nOut[k] = nIn[Nth(kept, k)]
            /\ Len(nEvents) = Cardinality(rejected)
            /\ \A k \in 1..Len(nEvents) :
                  nEvents[k] = DuplicateEvent(nIn[Nth(rejected, k)].name)

C1_Witness ==
    /\ nPc = "done"
    /\ Len(nOut) = 2
    /\ Len(nEvents) = 2
    /\ \E i, j \in 1..Len(nIn) :
          i < j /\ nIn[i].name = nIn[j].name /\ nIn[i].tag # nIn[j].tag
    /\ nIn[1].name # nIn[2].name /\ nIn[3].name = nIn[1].name

(***************************************************************************)
(* Claims about BuildClusters, checked under BuildSpec.                    *)
(***************************************************************************)
\* every cluster a call of BuildClusters returned
AllClusters ==
    UNION {{outs[i].clusters[k] : k \in 1..Len(outs[i].clusters)} : i \in 1..Len(outs)}

\* C8: for the same snapshot and the same proxy, any two invocations of
\* BuildClusters return the same cluster list, the order of the clusters and
\* of the locality groups of every inline endpoint list included.
C8_SameInputSameOutput ==
    \A i, j \in 1..Len(outs) : outs[i].clusters = outs[j].clusters

\* C9: no cluster BuildClusters returns is derived from a port whose
\* protocol is UDP, be it outbound, SNI-DNAT, inbound of a service instance,
\* inbound of a declared ingress listener, or of a management port.
C9_NoClusterOfUdpPort ==
    \A c \in AllClusters : c.srcPort # Nil => c.srcPort.protocol # "UDP"

IsInbound(c) ==
    \/ c.name \in {InboundPassthroughClusterIpv4, InboundPassthroughClusterIpv6}
    \/ c.name.form # "literal" /\ c.name.direction = "inbound"

\* C10: for a proxy that is not a sidecar, BuildClusters returns no inbound
\* cluster and no PassthroughCluster: every cluster is an outbound cluster,
\* the blackhole cluster or, in SNI-DNAT router mode only, an SNI-DNAT
\* variant.
C10_GatewayShape ==
    argProxy # Nil /\ argProxy.type # "sidecar" =>
        \A c \in AllClusters :
            /\ ~IsInbound(c)
            /\ c.name # PassthroughCluster
            /\ \/ c.name = BlackHoleCluster
               \/ c.name.form = "subsetKey" /\ c.name.direction = "outbound"
               \/ /\ c.name.form = "dnsSrvSubsetKey"
                  /\ c.name.direction = "outbound"
                  /\ argProxy.metadata.routerMode = "sni-dnat"

\* A gateway in SNI-DNAT mode has built: outbound clusters, SNI-DNAT
\* variants and the blackhole are in its list.
C10_Witness ==
    /\ Len(outs) > 0
    /\ argProxy.type = "router"
    /\ argProxy.metadata.routerMode = "sni-dnat"
    /\ \E c \in AllClusters : c.name.form = "dnsSrvSubsetKey"
    /\ \E c \in AllClusters : c.name.form = "subsetKey"
    /\ \E c \in AllClusters : c.name = BlackHoleCluster

\* C11: for a sidecar, the list BuildClusters returns holds exactly one
\* cluster named BlackHoleCluster and exactly one named PassthroughCluster,
\* both after every outbound service cluster and before every inbound
\* cluster.
C11_SidecarSinks ==
    argProxy # Nil /\ argProxy.type = "sidecar" =>
        \A i \in 1..Len(outs) :
            LET cs == outs[i].clusters
                at(name) == {k \in 1..Len(cs) : cs[k].name = name}
                sinks == at(BlackHoleCluster) \cup at(PassthroughCluster)
            IN /\ Cardinality(at(BlackHoleCluster)) = 1
               /\ Cardinality(at(PassthroughCluster)) = 1
               /\ \A k \in 1..Len(cs), s \in sinks :
                     /\ (cs[k].name.form = "subsetKey"
                           /\ cs[k].name.direction = "outbound") => k < s
                     /\ IsInbound(cs[k]) => s < k

\* A sidecar has built: outbound service clusters come before its two
\* sinks, inbound clusters of instances and the inbound passthrough sinks
\* after them.
C11_Witness ==
    /\ argProxy # Nil /\ argProxy.type = "sidecar"
    /\ \E i \in 1..Len(outs) :
          LET cs == outs[i].clusters
          IN /\ \E k \in 1..Len(cs) : cs[k].name.form = "subsetKey"
                                         /\ cs[k].name.direction = "outbound"
             /\ \E k \in 1..Len(cs) : cs[k].name.form = "subsetKey"
                                         /\ cs[k].name.direction = "inbound"
             /\ \E k \in 1..Len(cs) : cs[k].name = InboundPassthroughClusterIpv4

\* C12: every returned cluster whose discovery type is EDS in the end
\* carries an EDS configuration whose service name is the cluster's own
\* name, and carries no load assignment.
C12_EdsShape ==
    \A c \in AllClusters :
        c.type = "EDS" =>
            /\ c.edsClusterConfig # Nil
            /\ c.edsClusterConfig.serviceName = c.name
            /\ c.loadAssignment = Nil

\* A gateway has built for c.example.org, whose resolution gives EDS: the
\* cluster of the Redis port is still EDS after the root and the subset
\* policies, the cluster of the gRPC port was switched to ORIGINAL_DST by
\* the root policy's passthrough load balancing and has no EDS
\* configuration.
C12_Witness ==
    /\ \E c \in AllClusters :
          /\ c.type = "EDS" /\ c.name.form = "subsetKey"
          /\ c.name.hostname = "c.example.org" /\ c.name.subset = "hash"
          /\ c.edsClusterConfig # Nil
    /\ \E c \in AllClusters :
          /\ c.type = "ORIGINAL_DST" /\ c.name.form = "subsetKey"
          /\ c.name.hostname = "c.example.org"
          /\ argProxy.type = "router"
          /\ c.edsClusterConfig = Nil

C14_OriginalDstShape ==
    \A c \in AllClusters :
        c.type = "ORIGINAL_DST" => c.lbPolicy = lbPolicyClusterProvided(argProxy)

\* A gateway has built the subset "hash" of c.example.org on the gRPC
\* port: the root policy's PASSTHROUGH made the cluster ORIGINAL_DST, the
\* subset's consistent hash was applied to it afterwards.
C14_Witness ==
    /\ argProxy # Nil /\ argProxy.type = "router"
    /\ \E c \in AllClusters :
          /\ c.type = "ORIGINAL_DST" /\ c.name.form = "subsetKey"
          /\ c.name.hostname = "c.example.org" /\ c.name.subset = "hash"
          /\ c.name.port = grpcPort.port

\* C15: for a subset cluster, applying the root traffic policy and then the
\* subset's yields the same cluster as applying once their merge, in which
\* each facet the subset's policy gives for the port wins and a facet it
\* does not give falls back to the root's.
C15_LayeringEqualsMerge ==
    tpLayered # Nil =>
        LET root == SelectTrafficPolicyComponents(tpRoot, tpPort)
            subset == SelectTrafficPolicyComponents(tpSubset, tpPort)
            or(a, b) == IF a # Nil THEN a ELSE b
            merged == [connectionPool |-> or(subset.connectionPool, root.connectionPool),
                       outlierDetection |->
                           or(subset.outlierDetection, root.outlierDetection),
                       loadBalancer |-> or(subset.loadBalancer, root.loadBalancer),
                       tls |-> or(subset.tls, root.tls),
                       portLevelSettings |-> <<>>]
        IN tpLayered.after =
              applyTrafficPolicy(subsetOpts(argEnv, argProxy, tpLayered.before,
                                            merged, tpPort, tpLayered.meshExternal))

\* C20: SelectTrafficPolicyComponents returns four nils for a nil policy;
\* otherwise the root's four facets, unless the port is not nil and some
\* port-level entry carries the port's number, and then the four facets of
\* the first such entry in declared order, nils included.
C20_WholesaleFirstMatch ==
    tpSelected # Nil =>
        LET facets(p) == [connectionPool |-> p.connectionPool,
                          outlierDetection |-> p.outlierDetection,
                          loadBalancer |-> p.loadBalancer,
                          tls |-> p.tls]
            pls == tpRoot.portLevelSettings
            hits == {i \in 1..Len(pls) :
                        /\ tpPort # Nil
                        /\ pls[i].port # Nil
                        /\ pls[i].port.number = tpPort.port}
        IN IF tpRoot = Nil
             THEN tpSelected = [connectionPool |-> Nil, outlierDetection |-> Nil,
                                loadBalancer |-> Nil, tls |-> Nil]
           ELSE IF hits = {} THEN tpSelected = facets(tpRoot)
           ELSE \E i \in hits :
                   /\ \A j \in hits : i <= j
                   /\ tpSelected = facets(pls[i])

\* Selected for port 80 from a policy with two entries for that port: the
\* first has no facet at all, the root and the second entry have a load
\* balancer and TLS settings, and four nils came back.
C20_Witness ==
    /\ tpSelected # Nil /\ tpRoot # Nil /\ tpPort = httpPort
    /\ Len(tpRoot.portLevelSettings) = 2
    /\ \A i \in 1..2 : /\ tpRoot.portLevelSettings[i].port # Nil
                       /\ tpRoot.portLevelSettings[i].port.number = 80
    /\ tpRoot.portLevelSettings[1].loadBalancer = Nil
    /\ tpRoot.portLevelSettings[2].loadBalancer # Nil
    /\ tpRoot.loadBalancer # Nil /\ tpRoot.tls # Nil
    /\ tpSelected.loadBalancer = Nil /\ tpSelected.tls = Nil
    /\ tpSelected.connectionPool = Nil

\* C16: a returned cluster carries a transport-socket-match list only if
\* auto-mTLS is enabled in the mesh and the cluster's service is not
\* mesh-external; with auto-mTLS disabled no cluster has such a list, and an
\* outbound cluster of a mesh-external service for which no destination rule
\* exists has neither a TLS context nor a match list.
C16_AutoMtlsGating ==
    argProxy # Nil =>
    \A c \in AllClusters :
        LET known == IF c.name.form = "literal" THEN {}
                     ELSE IF c.name.direction = "inbound"
                       THEN {argProxy.serviceInstances[i].service :
                                i \in 1..Len(argProxy.serviceInstances)}
                     ELSE {argPush.services[i] : i \in 1..Len(argPush.services)}
            services == {s \in known : s.hostname = c.name.hostname}
            ruled == \E i \in 1..Len(argPush.destinationRules) :
                        argPush.destinationRules[i].spec.host = c.name.hostname
        IN /\ c.transportSocketMatches # <<>> =>
                 /\ argEnv.mesh.enableAutoMtls
                 /\ \A s \in services : ~s.meshExternal
           /\ ~argEnv.mesh.enableAutoMtls => c.transportSocketMatches = <<>>
           /\ (\E s \in services : s.meshExternal)
                /\ c.name.direction = "outbound" /\ ~ruled =>
                 c.tlsContext = Nil /\ c.transportSocketMatches = <<>>

\* C17: an outbound cluster for which the destination rule of its host
\* gives TLS settings (the subset's for the port if it gives any, else the
\* root's) has no transport-socket-match list, auto-mTLS enabled or not.
C17_UserTlsHasNoSocketMatch ==
    argPush # Nil =>
    \A c \in AllClusters :
        c.name.form = "subsetKey" /\ c.name.direction = "outbound" =>
            LET rules == argPush.destinationRules
                hits == {i \in 1..Len(rules) : rules[i].spec.host = c.name.hostname}
                rule == rules[CHOOSE i \in hits : \A j \in hits : i <= j].spec
                named == {j \in 1..Len(rule.subsets) :
                             rule.subsets[j].name = c.name.subset}
                ofSubset ==
                    IF named = {} THEN Nil
                    ELSE SelectTrafficPolicyComponents(
                             rule.subsets[CHOOSE j \in named : TRUE].trafficPolicy,
                             c.srcPort).tls
                ofRoot == SelectTrafficPolicyComponents(rule.trafficPolicy, c.srcPort).tls
            IN hits # {} /\ (ofSubset # Nil \/ ofRoot # Nil) =>
                  c.transportSocketMatches = <<>>

\* C18: every cluster of the SNI-DNAT branch, default or subset, has no TLS
\* context and no transport-socket-match list, whatever the destination
\* rule declares and whether auto-mTLS is enabled or not.
C18_SniDnatCarriesNoTls ==
    \A c \in AllClusters :
        c.name.form = "dnsSrvSubsetKey" =>
            c.tlsContext = Nil /\ c.transportSocketMatches = <<>>

\* C19: every endpoint of the load assignment of an outbound cluster
\* is that of a registry instance of the cluster's service whose network
\* is in the proxy's network view: an instance of the unnamed network only
\* if the view holds the empty string.  A cluster of a service whose
\* resolution is not DNS has no inline endpoint.
C19_NetworkViewFilter ==
    argProxy # Nil =>
    \A c \in AllClusters :
        c.name.form # "literal" /\ c.name.direction = "outbound" =>
            LET groups == IF c.loadAssignment = Nil THEN <<>>
                          ELSE c.loadAssignment.endpoints
                sent == UNION {{groups[g].lbEndpoints[k] :
                                   k \in 1..Len(groups[g].lbEndpoints)} :
                               g \in 1..Len(groups)}
                instances == {argEnv.instances[i] : i \in 1..Len(argEnv.instances)}
            IN /\ \A ep \in sent :
                     /\ ep.metadata.network \in GetNetworkView(argProxy)
                     /\ \E i \in instances :
                           /\ i.service.hostname = c.name.hostname
                           /\ i.endpoint.uid = ep.metadata.uid
                           /\ i.endpoint.address = ep.address.address
                           /\ i.endpoint.network = ep.metadata.network
               /\ \A i \in 1..Len(argPush.services) :
                     /\ argPush.services[i].hostname = c.name.hostname
                     /\ argPush.services[i].resolution # "DNSLB"
                     => sent = {}

\* A sidecar that asked for network net2 has built the cluster of the
\* DNS-resolved b.example.org: of the three registry instances, two on the
\* unnamed network, only the one on net2 is among its endpoints.
C19_Witness ==
    /\ argProxy # Nil /\ argProxy.metadata.requestedNetworkView = {"net2"}
    /\ \E c \in AllClusters :
          /\ c.name.form = "subsetKey" /\ c.name.direction = "outbound"
          /\ c.name.hostname = "b.example.org" /\ c.name.subset = ""
          /\ c.loadAssignment # Nil
          /\ Len(c.loadAssignment.endpoints) = 1
          /\ Len(c.loadAssignment.endpoints[1].lbEndpoints) = 1
          /\ c.loadAssignment.endpoints[1].lbEndpoints[1].metadata.uid = "b3"

\* C21: when the TLS settings applied last to a subset cluster (the
\* subset's for the port if it gives any, else the root's) have mode MUTUAL
\* and an empty client certificate or private key, the cluster has no TLS
\* context, also when the root policy had configured TLS before.
C21_KeylessMutualLeavesTlsUnset ==
    tpLayered # Nil =>
        LET ofRoot == SelectTrafficPolicyComponents(tpRoot, tpPort).tls
            ofSubset == SelectTrafficPolicyComponents(tpSubset, tpPort).tls
            last == IF ofSubset # Nil THEN ofSubset ELSE ofRoot
        IN last # Nil /\ last.mode = "MUTUAL"
              /\ (last.clientCertificate = "" \/ last.privateKey = "") =>
                 tpLayered.after.tlsContext = Nil

\* C22: every call of BuildClusters returns a list that ends the build:
\* the blackhole is in it and so is the default cluster of every port of
\* every service that is not UDP.  When InstancesByPort fails, the cluster
\* of a DNS-resolved service is there with an empty endpoint list.  Of the
\* declared ingress listeners, the ones whose default endpoint has no
\* colon or no number after it have no cluster, and the listeners declared
\* after them have theirs.
C22_BuildNeverFails ==
    argProxy # Nil =>
    \A i \in 1..Len(outs) :
        LET cs == {outs[i].clusters[k] : k \in 1..Len(outs[i].clusters)}
            inboundOf(number) ==
                {c \in cs : /\ c.name.form = "subsetKey"
                            /\ c.name.direction = "inbound"
                            /\ c.name.port = number}
        IN /\ \E c \in cs : c.name = BlackHoleCluster
           /\ \A j \in 1..Len(argPush.services) :
                 LET service == argPush.services[j]
                 IN \A k \in 1..Len(service.ports) :
                       service.ports[k].protocol # "UDP" =>
                          \E c \in cs :
                             /\ c.name = BuildSubsetKey("outbound", "", service.hostname,
                                                        service.ports[k].port)
                             /\ argEnv.instancesByPortFails /\ c.type = "STRICT_DNS" =>
                                   /\ c.loadAssignment # Nil
                                   /\ c.loadAssignment.endpoints = <<>>
           /\ argProxy.sidecarScope.hasCustomIngressListeners =>
                 /\ inboundOf(71) = {}
                 /\ inboundOf(72) = {}
                 /\ inboundOf(73) # {}

\* The registry fails and the snapshot holds the DNS-resolved
\* b.example.org: its cluster was built, without endpoints, and so was the
\* cluster of another service after it.
C22_Witness ==
    /\ argEnv # Nil /\ argEnv.instancesByPortFails
    /\ \E c \in AllClusters :
          /\ c.name = BuildSubsetKey("outbound", "", "b.example.org", 90)
          /\ c.type = "STRICT_DNS"
          /\ c.loadAssignment.endpoints = <<>>
    /\ \E c \in AllClusters :
          c.name = BuildSubsetKey("outbound", "", "c.example.org", 70)

\* C23: a call of BuildClusters leaves the proxy, its service instances
\* included, the services and destination rules of the snapshot and the
\* environment as they were.
C23_InputsUnchanged ==
    [][/\ argProxy' = argProxy
       /\ argPush' = argPush
       /\ argEnv' = argEnv]_vars

\* A sidecar whose scope declares an ingress listener on port 80 has built:
\* the listener matched the proxy's first instance, the inbound cluster's
\* endpoint is the local host, the instance still has the workload's
\* address.
C23_Witness ==
    /\ argProxy # Nil /\ argProxy.sidecarScope.hasCustomIngressListeners
    /\ argProxy.serviceInstances[1].endpoint.port = 80
    /\ argProxy.serviceInstances[1].endpoint.address = "10.0.0.1"
    /\ \E c \in AllClusters :
          /\ c.name.form = "subsetKey" /\ c.name.direction = "inbound"
          /\ c.name.port = 80
          /\ c.loadAssignment.endpoints[1].lbEndpoints[1].address.address = "127.0.0.1"

\* C24: an inbound cluster has no outlier detection, no TLS context and no
\* transport-socket-match list, and its load balancing policy is the one
\* of the default policy whatever the destination rule says, for every
\* mesh configuration.
C24_InboundTakesOnlyConnectionPool ==
    \A c \in AllClusters :
        c.name.form = "subsetKey" /\ c.name.direction = "inbound" =>
            /\ c.outlierDetection = Nil
            /\ c.lbPolicy = "ROUND_ROBIN"
            /\ c.tlsContext = Nil
            /\ c.transportSocketMatches = <<>>

MaxHandlers == 3

\* the functions a client may append
HandlerPool == {"h1", "h2"}

\* The error the i-th call of an Apply, a call of handler h, returned.
Error(h, i) == [handler |-> h, call |-> i]

\* One call f(obj, event) of the range loop: the handler, its place in
\* ch.Funcs, what it returned, and the invocation of Run (the length of the
\* history invoked) it belongs to.
Call(h, i, err) == [f |-> h, pos |-> i, err |-> err, run |-> Len(invoked)]

ChainInit ==
    /\ NewQueue
    /\ NormIdle
    /\ BuildIdle
    /\ PolicyIdle
    /\ chFuncs = <<>>
    /\ chTrace = <<>>
    /\ chHist = [t \in Tasks |-> <<>>]

\* ch.Funcs = append(ch.Funcs, h).  The handlers are registered before Run
\* is started: Append takes no lock, and Apply reads ch.Funcs in Run's
\* goroutine.
ChainHandler_Append(h) ==
    /\ runPc = "start"
    /\ Len(chFuncs) < MaxHandlers
    /\ chFuncs' = Append(chFuncs, h)
    /\ UNCHANGED <<chTrace, chHist>>
    /\ UNCHANGED <<qvars, nvars, cvars, pvars>>

\* Apply, one turn of for _, f := range ch.Funcs: f returns nil.
Apply_Nil ==
    /\ runPc = "handle"
    /\ cur \in running
    /\ Len(chTrace) < Len(chFuncs)
    /\ chTrace' = Append(chTrace,
                         Call(chFuncs[Len(chTrace) + 1], Len(chTrace) + 1, Nil))
    /\ UNCHANGED <<chFuncs, chHist>>
    /\ UNCHANGED <<qvars, nvars, cvars, pvars>>

\* Mutant of Apply_Err: the error is only logged, and the loop goes on with
\* the next handler.
Apply_Err_Continue ==
    /\ runPc = "handle"
    /\ cur \in running
    /\ Len(chTrace) < Len(chFuncs)
    /\ failed[cur] < MaxFail
    /\ chTrace' = Append(chTrace,
                         Call(chFuncs[Len(chTrace) + 1], Len(chTrace) + 1,
                              Error(chFuncs[Len(chTrace) + 1], Len(chTrace) + 1)))
    /\ failed' = [failed EXCEPT ![cur] = @ + 1]
    /\ UNCHANGED <<chFuncs, chHist>>
    /\ UNCHANGED <<queue, closing, mu, runPc, cur, stopCh, stopPc, timers,
                   nextId, succeeded, running, appended, invoked, dropped>>
    /\ UNCHANGED <<nvars, cvars, pvars>>

\* Mutant of Apply_Err: the handlers that returned nil are remembered, and
\* the next invocation goes on after them.
Apply_Err_Resume ==
    /\ runPc = "handle"
    /\ cur \in running
    /\ Len(chTrace) < Len(chFuncs)
    /\ failed[cur] < MaxFail
    /\ chHist' = [chHist EXCEPT ![cur] = Append(@,
          [run |-> Len(invoked),
           calls |-> Append(chTrace,
                            Call(chFuncs[Len(chTrace) + 1], Len(chTrace) + 1,
                                 Error(chFuncs[Len(chTrace) + 1],
                                       Len(chTrace) + 1))),
           ret |-> Error(chFuncs[Len(chTrace) + 1], Len(chTrace) + 1)])]
    /\ UNCHANGED chTrace
    /\ running' = running \ {cur}
    /\ failed' = [failed EXCEPT ![cur] = @ + 1]
    /\ timers' = timers \cup {cur}
    /\ runPc' = "lock"
    /\ UNCHANGED chFuncs
    /\ UNCHANGED <<queue, closing, mu, cur, stopCh, stopPc, nextId, succeeded,
                   appended, invoked, dropped>>
    /\ UNCHANGED <<nvars, cvars, pvars>>

\* Apply, one turn of the range: f returns an error and Apply returns it at
\* once; Run logs it and calls time.AfterFunc(q.delay, q.Push(item)).
Apply_Err ==
    /\ runPc = "handle"
    /\ cur \in running
    /\ Len(chTrace) < Len(chFuncs)
    /\ failed[cur] < MaxFail
    /\ chHist' = [chHist EXCEPT ![cur] = Append(@,
          [run |-> Len(invoked),
           calls |-> Append(chTrace,
                            Call(chFuncs[Len(chTrace) + 1], Len(chTrace) + 1,
                                 Error(chFuncs[Len(chTrace) + 1],
                                       Len(chTrace) + 1))),
           ret |-> Error(chFuncs[Len(chTrace) + 1], Len(chTrace) + 1)])]
    /\ chTrace' = <<>>
    /\ running' = running \ {cur}
    /\ failed' = [failed EXCEPT ![cur] = @ + 1]
    /\ timers' = timers \cup {cur}
    /\ runPc' = "lock"
    /\ UNCHANGED chFuncs
    /\ UNCHANGED <<queue, closing, mu, cur, stopCh, stopPc, nextId, succeeded,
                   appended, invoked, dropped>>
    /\ UNCHANGED <<nvars, cvars, pvars>>

\* Apply: the range is over, return nil; Run's loop goes on.
Apply_Return ==
    /\ runPc = "handle"
    /\ cur \in running
    /\ Len(chTrace) = Len(chFuncs)
    /\ chHist' = [chHist EXCEPT ![cur] = Append(@,
          [run |-> Len(invoked), calls |-> chTrace, ret |-> Nil])]
    /\ chTrace' = <<>>
    /\ running' = running \ {cur}
    /\ succeeded' = succeeded \cup {cur}
    /\ runPc' = "lock"
    /\ UNCHANGED chFuncs
    /\ UNCHANGED <<queue, closing, mu, cur, stopCh, stopPc, timers, nextId,
                   failed, appended, invoked, dropped>>
    /\ UNCHANGED <<nvars, cvars, pvars>>

ChainNext ==
    \/ \E h \in HandlerPool : ChainHandler_Append(h)
    \/ Push_Lock
    \/ \E t \in Tasks : Push_Retry(t)
    \/ Push_Body
    \/ CloseStop
    \/ Run_Start
    \/ Stop_Recv
    \/ Stop_Lock
    \/ Stop_Set
    \/ Run_Lock
    \/ Run_Wait
    \/ Run_Return
    \/ Run_Dequeue
    \/ Run_Invoke
    \/ Apply_Nil
    \/ Apply_Err
    \/ Apply_Return

ChainSpec == ChainInit /\ [][ChainNext]_vars

\* A finished Apply kept to the code's loop: its calls are the handlers of
\* ch.Funcs from the first on, in order and within one invocation; only the
\* last call may have returned an error, and then Apply returned that error;
\* it returned nil exactly when every handler was called and returned nil.
ApplyInOrder(a) ==
    /\ Len(a.calls) <= Len(chFuncs)
    /\ \A i \in 1..Len(a.calls) :
          /\ a.calls[i].f = chFuncs[i]
          /\ a.calls[i].pos = i
          /\ a.calls[i].run = a.run
          /\ i < Len(a.calls) => a.calls[i].err = Nil
    /\ a.ret # Nil =>
          /\ a.calls # <<>>
          /\ a.ret = a.calls[Len(a.calls)].err
    /\ a.ret = Nil <=>
          /\ Len(a.calls) = Len(chFuncs)
          /\ \A i \in 1..Len(a.calls) : a.calls[i].err = Nil

\* C26: every finished Apply called the handlers in the order of ch.Funcs,
\* stopped at the first error and returned it, and returned nil exactly when
\* all handlers returned nil; and every change of ch.Funcs adds one handler
\* after the existing ones, which keep their order.
C26_ChainOrder ==
    [][/\ \A t \in Tasks : \A i \in 1..Len(chHist'[t]) :
             ApplyInOrder(chHist[t][i])'
       /\ chFuncs' # chFuncs =>
             /\ Len(chFuncs') = Len(chFuncs) + 1
             /\ SubSeq(chFuncs', 1, Len(chFuncs)) = chFuncs]_vars

\* C26 witness: a chain of three handlers, not all the same, one Apply of
\* which stopped with the error of its second handler and another of which
\* returned nil.
C26_Witness ==
    /\ Len(chFuncs) = 3
    /\ chFuncs[1] # chFuncs[2]
    /\ \E t \in Tasks : \E i \in 1..Len(chHist[t]) :
          /\ chHist[t][i].ret # Nil
          /\ Len(chHist[t][i].calls) = 2
    /\ \E t \in Tasks : \E i \in 1..Len(chHist[t]) : chHist[t][i].ret = Nil

\* The calls of one invocation, finished or running, numbered run: they are
\* the handlers of ch.Funcs from the first on, each called in this
\* invocation.
FromFirst(calls, run) ==
    \A j \in 1..Len(calls) :
        /\ calls[j].pos = j
        /\ calls[j].f = chFuncs[j]
        /\ calls[j].run = run

EndpointUids(groups) ==
    UNION {{groups[g].lbEndpoints[k].metadata.uid :
               k \in 1..Len(groups[g].lbEndpoints)} : g \in 1..Len(groups)}

\* C27: for a service whose discovery type is not EDS, the inline endpoints
\* of every outbound subset cluster are the endpoints of the service port
\* that match the subset's own labels (all of the port's endpoints when the
\* subset has no labels), whatever subsets precede it in the rule.
C27_SubsetEndpointsOwnSelector ==
    argProxy # Nil =>
    \A i \in 1..Len(argPush.services) :
        LET service == argPush.services[i]
            rule == castDestinationRuleOrDefault(
                        DestinationRule(argPush, argProxy, service))
        IN  convertResolution(argProxy, service.resolution) # "EDS" =>
            \A p \in 1..Len(service.ports) : \A j \in 1..Len(rule.subsets) :
            \A c \in AllClusters :
                (/\ c.name.form \in {"subsetKey", "dnsSrvSubsetKey"}
                 /\ c.name.direction = "outbound"
                 /\ c.name.hostname = service.hostname
                 /\ c.name.port = service.ports[p].port
                 /\ c.name.subset = rule.subsets[j].name) =>
                    EndpointUids(IF c.loadAssignment = Nil THEN <<>>
                                 ELSE c.loadAssignment.endpoints)
                    = EndpointUids(buildLocalityLbEndpoints(
                          argEnv, GetNetworkView(argProxy), service,
                          service.ports[p].port,
                          IF rule.subsets[j].labels = {} THEN <<>>
                          ELSE <<rule.subsets[j].labels>>,
                          CHOOSE o \in LocalityOrders : TRUE))

\* The plugins a build called hook on for the cluster named name, in the
\* order of the calls.
CalledFor(o, hook, name) ==
    LET hits == SelectSeq(o.calls, LAMBDA call : call.hook = hook /\ call.cluster = name)
    IN [k \in 1..Len(hits) |-> hits[k].plugin]

\* The registered plugins, in registration order, once for the returned
\* cluster of the name and once more for every cluster of the same name
\* that normalizeClusters dropped as a duplicate.
OncePerBuilt(o, name) ==
    LET n == Len(argConfiggen.plugins)
        m == 1 + Cardinality({e \in 1..Len(o.events) : o.events[e].key = name})
    IN [k \in 1..(m * n) |-> argConfiggen.plugins[((k - 1) % n) + 1]]

\* C28: in every build, each returned outbound cluster (default, subset or
\* SNI-DNAT) had OnOutboundCluster called once per registered plugin, in
\* registration order, and no inbound callback; each returned inbound
\* cluster (of a service instance, an ingress listener or a management port)
\* had OnInboundCluster called likewise, and no outbound callback; no
\* callback was made for the blackhole or a passthrough cluster.
C28_CallbacksPerEmittedCluster ==
    argConfiggen # Nil =>
    \A i \in 1..Len(outs) : \A k \in 1..Len(outs[i].clusters) :
        LET o == outs[i]
            c == o.clusters[k]
        IN  IF c.name.form = "literal"
              THEN /\ CalledFor(o, "OnOutboundCluster", c.name) = <<>>
                   /\ CalledFor(o, "OnInboundCluster", c.name) = <<>>
            ELSE IF c.name.direction = "outbound"
              THEN /\ CalledFor(o, "OnOutboundCluster", c.name) = OncePerBuilt(o, c.name)
                   /\ CalledFor(o, "OnInboundCluster", c.name) = <<>>
              ELSE /\ CalledFor(o, "OnInboundCluster", c.name) = OncePerBuilt(o, c.name)
                   /\ CalledFor(o, "OnOutboundCluster", c.name) = <<>>

====
